---------------------------- MODULE Spec2Model ----------------------------
(***************************************************************************)
(* The workspace index of the blk-ecs language server                      *)
(* (src/server/src/server.ts): the module-level maps, the scan pipeline    *)
(* (read, parse, processFile, validateFile), the editor events and the     *)
(* workspace walk, as a state machine.  Strings are sequences of           *)
(* one-character strings so that startsWith, split and removeQuotes are    *)
(* computed as the code computes them.                                     *)
(***************************************************************************)
EXTENDS Integers, Sequences, FiniteSets, TLC

(***************************************************************************)
(* Strings                                                                 *)
(***************************************************************************)
Q == "\""

Null == [null |-> TRUE]

Range(f) == {f[i] : i \in DOMAIN f}

\* String.prototype.startsWith
StartsWith(str, prefix) ==
    /\ Len(prefix) <= Len(str)
    /\ SubSeq(str, 1, Len(prefix)) = prefix

\* String.prototype.endsWith
EndsWith(str, suffix) ==
    /\ Len(suffix) <= Len(str)
    /\ SubSeq(str, Len(str) - Len(suffix) + 1, Len(str)) = suffix

\* server.ts removeQuotes: one leading and then one trailing quote are dropped
removeQuotes(str) ==
    LET s1 == IF StartsWith(str, <<Q>>) THEN SubSeq(str, 2, Len(str)) ELSE str
    IN  IF EndsWith(s1, <<Q>>) THEN SubSeq(s1, 1, Len(s1) - 1) ELSE s1

\* String.prototype.split with a one-character delimiter
RECURSIVE Split(_, _)
Split(str, d) ==
    IF \E i \in 1..Len(str) : str[i] = d
    THEN LET i == CHOOSE k \in 1..Len(str) :
                     /\ str[k] = d
                     /\ \A j \in 1..(k - 1) : str[j] # d
         IN  <<SubSeq(str, 1, i - 1)>> \o Split(SubSeq(str, i + 1, Len(str)), d)
    ELSE <<str>>

\* String.prototype.trim (the only white space of the model is " ")
RECURSIVE Trim(_)
Trim(str) ==
    IF Len(str) > 0 /\ str[1] = " " THEN Trim(Tail(str))
    ELSE IF Len(str) > 0 /\ str[Len(str)] = " " THEN Trim(SubSeq(str, 1, Len(str) - 1))
    ELSE str

\* str.split(delemiter).map(removeQuotes)
splitAndRemoveQuotes(str) ==
    LET parts == Split(str, "+") IN [i \in DOMAIN parts |-> removeQuotes(parts[i])]

\* removeQuotes(name).split(":").map(it => it.trim())
NameParts(name) ==
    LET parts == Split(removeQuotes(name), ":") IN [i \in DOMAIN parts |-> Trim(parts[i])]

RECURSIVE Flatten(_)
Flatten(seqs) == IF seqs = <<>> THEN <<>> ELSE Head(seqs) \o Flatten(Tail(seqs))

\* the map name -> number of occurrences of name in seq (no entry for a count of 0)
CountOf(seq) ==
    [n \in Range(seq) |-> Cardinality({i \in DOMAIN seq : seq[i] = n})]

(***************************************************************************)
(* blkBlock.ts                                                             *)
(***************************************************************************)
extendsField == <<"_", "e", "x", "t", "e", "n", "d", "s">>
templateField == <<"_", "t", "e", "m", "p", "l", "a", "t", "e">>
groupBlock == <<"_", "g", "r", "o", "u", "p">>
entityWithTemplateName == <<"e", "n", "t", "i", "t", "y">>

TypeT == <<"t">>

BlkPosition(line, column, offset) == [offset |-> offset, line |-> line, column |-> column]

\* BlkLocation.create(start, end) with both given: the positions are copied
BlkLocation(start, end) ==
    [start |-> BlkPosition(start.line, start.column, start.offset),
     end |-> BlkPosition(end.line, end.column, end.offset)]

\* newParam.indent.end.column++ ; newParam.indent.end.offset++
IndentPlusOne(indent) ==
    [indent EXCEPT !.end = [@ EXCEPT !.column = @ + 1, !.offset = @ + 1]]


(***************************************************************************)
(* The texts a file or an edit buffer can hold, and what the parser makes  *)
(* of each.  The grammar (./blk) is not part of the sources; a text is     *)
(* identified by the tree the parser returns for it.                       *)
(*   g1:  A{_extends:t="B";x:i=1}                                          *)
(*        B{}                                                              *)
(*        B{}                                                              *)
(*        entity{_template:t="A+B"}                                        *)
(*   g2:  C{_extends:t="A";_group{a:i=1;b:i{}}"n:r"{}}                     *)
(*   g3:  X{_extends:t="X"}                                                *)
(*        Foo{}                                                            *)
(*        Foo{}                                                            *)
(*        Y{_extends:t="Ab+C+Def"}                                         *)
(*        Ab{}                                                             *)
(*        Z{_extends:t="Bar"}                                              *)
(*   g4:  D{                                                               *)
(*         x:i=1                                                           *)
(*         n:r{m:p{};_group{k:i=2}}                                        *)
(*        }                                                                *)
(*        E{x:i=3;x:r=4}                                                   *)
(*        entity{_template:t="D+D+U"}                                      *)
(*   g5:  import:t="#g"                                                    *)
(*        import:t="f"                                                     *)
(*        import:t="#d/g"                                                  *)
(*   bad: a non-blank text the parser rejects                              *)
(*   blank: white space only, rejected as well                             *)
(* A location starts at the first character of its text and ends one       *)
(* column past the last one; the separator after a param is not part of    *)
(* the param.                                                              *)
(***************************************************************************)
\* the position of column col of line line (offsets count from the file start)
At(line, col) == BlkPosition(line, col, (line - 1) * 100 + col - 1)

Span(line, c1, c2) == [start |-> At(line, c1), end |-> At(line, c2)]

\* a param as the parser returns it: value = [name, type, value]
RawParam(value, line, c1, c2) ==
    [indent |-> Span(line, 1, c1), location |-> Span(line, c1, c2), value |-> value]

\* a block as the parser returns it
RawBlock(name, blocks, params, location) ==
    [blocks |-> blocks, comments |-> <<>>, emptyLines |-> <<>>, includes |-> <<>>,
     location |-> location, name |-> name, params |-> params]

TreeG1 ==
    RawBlock(<<>>,
        << RawBlock(<<"A">>, <<>>,
               << RawParam(<< extendsField, <<"t">>, <<Q, "B", Q>> >>, 1, 3, 17),
                  RawParam(<< <<"x">>, <<"i">>, <<"1">> >>, 1, 18, 23) >>,
               Span(1, 1, 24)),
           RawBlock(<<"B">>, <<>>, <<>>, Span(2, 1, 4)),
           RawBlock(<<"B">>, <<>>, <<>>, Span(3, 1, 4)),
           RawBlock(entityWithTemplateName, <<>>,
               << RawParam(<< templateField, <<"t">>, <<Q, "A", "+", "B", Q>> >>, 4, 8, 25) >>,
               Span(4, 1, 26)) >>,
        <<>>, [start |-> At(1, 1), end |-> At(4, 26)])

TreeG2 ==
    RawBlock(<<>>,
        << RawBlock(<<"C">>,
               << RawBlock(groupBlock,
                      << RawBlock(<<"b", ":", "i">>, <<>>, <<>>, Span(1, 31, 36)) >>,
                      << RawParam(<< <<"a">>, <<"i">>, <<"1">> >>, 1, 25, 30) >>,
                      Span(1, 18, 37)),
                  RawBlock(<<Q, "n", ":", "r", Q>>, <<>>, <<>>, Span(1, 37, 44)) >>,
               << RawParam(<< extendsField, <<"t">>, <<Q, "A", Q>> >>, 1, 3, 17) >>,
               Span(1, 1, 45)) >>,
        <<>>, Span(1, 1, 45))

TreeG3 ==
    RawBlock(<<>>,
        << RawBlock(<<"X">>, <<>>,
               << RawParam(<< extendsField, <<"t">>, <<Q, "X", Q>> >>, 1, 3, 17) >>,
               Span(1, 1, 18)),
           RawBlock(<<"F", "o", "o">>, <<>>, <<>>, Span(2, 1, 6)),
           RawBlock(<<"F", "o", "o">>, <<>>, <<>>, Span(3, 1, 6)),
           RawBlock(<<"Y">>, <<>>,
               << RawParam(<< extendsField, <<"t">>,
                              <<Q, "A", "b", "+", "C", "+", "D", "e", "f", Q>> >>, 4, 3, 24) >>,
               Span(4, 1, 25)),
           RawBlock(<<"A", "b">>, <<>>, <<>>, Span(5, 1, 5)),
           RawBlock(<<"Z">>, <<>>,
               << RawParam(<< extendsField, <<"t">>, <<Q, "B", "a", "r", Q>> >>, 6, 3, 19) >>,
               Span(6, 1, 20)) >>,
        <<>>, [start |-> At(1, 1), end |-> At(6, 20)])

TreeG4 ==
    RawBlock(<<>>,
        << RawBlock(<<"D">>,
               << RawBlock(<<"n", ":", "r">>,
                      << RawBlock(<<"m", ":", "p">>, <<>>, <<>>, Span(3, 6, 11)),
                         RawBlock(groupBlock, <<>>,
                             << RawParam(<< <<"k">>, <<"i">>, <<"2">> >>, 3, 19, 24) >>,
                             Span(3, 12, 25)) >>,
                      <<>>, Span(3, 2, 26)) >>,
               << RawParam(<< <<"x">>, <<"i">>, <<"1">> >>, 2, 2, 7) >>,
               [start |-> At(1, 1), end |-> At(4, 2)]),
           RawBlock(<<"E">>, <<>>,
               << RawParam(<< <<"x">>, <<"i">>, <<"3">> >>, 5, 3, 8),
                  RawParam(<< <<"x">>, <<"r">>, <<"4">> >>, 5, 9, 14) >>,
               Span(5, 1, 15)),
           RawBlock(entityWithTemplateName, <<>>,
               << RawParam(<< templateField, <<"t">>,
                              <<Q, "D", "+", "D", "+", "U", Q>> >>, 6, 8, 27) >>,
               Span(6, 1, 28)) >>,
        <<>>, [start |-> At(1, 1), end |-> At(6, 28)])

TreeG5 ==
    RawBlock(<<>>, <<>>,
        << RawParam(<< <<"i", "m", "p", "o", "r", "t">>, <<"t">>, <<Q, "#", "g", Q>> >>, 1, 1, 14),
           RawParam(<< <<"i", "m", "p", "o", "r", "t">>, <<"t">>, <<Q, "f", Q>> >>, 2, 1, 13),
           RawParam(<< <<"i", "m", "p", "o", "r", "t">>, <<"t">>,
                       <<Q, "#", "d", "/", "g", Q>> >>, 3, 1, 16) >>,
        [start |-> At(1, 1), end |-> At(3, 16)])

\* if (txt.charCodeAt(0) == 0xFEFF) txt = txt.substr(1)
StripBom(txt) == IF txt.bom THEN [txt EXCEPT !.bom = FALSE] ELSE txt

\* txt.trim().length > 0
NonBlank(txt) == txt.bom \/ txt.src # "blank"

\* whether parse(txt) returns a tree (a byte order mark is no blk syntax)
ParseOk(txt) == ~txt.bom /\ txt.src \in {"g1", "g2", "g3", "g4", "g5"}

\* parse(txt) of ./blk for the texts it accepts
parse(txt) ==
    IF txt.src = "g1" THEN TreeG1
    ELSE IF txt.src = "g2" THEN TreeG2
    ELSE IF txt.src = "g3" THEN TreeG3
    ELSE IF txt.src = "g4" THEN TreeG4
    ELSE TreeG5

\* the location a ParseError carries
ErrLocation(txt) == Span(1, 1, 2)

(***************************************************************************)
(* Normalizer: cleanupBlkParam, cleanupBlkBlock and the flattening part of *)
(* processFile                                                             *)
(***************************************************************************)
KindField == "Field"
KindStruct == "Struct"

\* cleanupBlkParam: value is split into _name, _type, _value and deleted
cleanupBlkParam(param) ==
    LET v == param.value
        quoted == Len(v) > 0 /\ StartsWith(v[1], <<Q>>)
    IN  [indent |-> IF quoted THEN IndentPlusOne(param.indent) ELSE param.indent,
         location |-> param.location,
         _name |-> IF Len(v) > 0 THEN removeQuotes(v[1]) ELSE <<>>,
         _type |-> IF Len(v) > 1 THEN v[2] ELSE <<>>,
         _value |-> IF Len(v) > 2 THEN v[3] ELSE <<>>]

\* cleanupBlkBlock: comments and emptyLines are deleted, depth first
RECURSIVE cleanupBlkBlock(_)
cleanupBlkBlock(blk) ==
    [blocks |-> [i \in DOMAIN blk.blocks |-> cleanupBlkBlock(blk.blocks[i])],
     includes |-> blk.includes,
     location |-> blk.location,
     name |-> blk.name,
     params |-> [i \in DOMAIN blk.params |-> cleanupBlkParam(blk.params[i])]]

\* processFile 425-436: the copy of a param of a _group child
GroupParam(childParam) ==
    [indent |-> (IF StartsWith(childParam._name, <<Q>>) THEN IndentPlusOne(childParam.indent)
                 ELSE childParam.indent),
     location |-> childParam.location,
     value |-> Null,
     _name |-> childParam._name,
     _type |-> childParam._type,
     _value |-> childParam._value]

\* processFile 441-453 and 458-470: the synthetic param of a child block
NewParam(child, parts, indent) ==
    [indent |-> IF StartsWith(child.name, <<Q>>) THEN IndentPlusOne(indent) ELSE indent,
     location |-> child.location,
     value |-> Null,
     _name |-> IF Len(parts) > 0 THEN parts[1] ELSE <<>>,
     _type |-> IF Len(parts) > 1 THEN parts[2] ELSE <<>>,
     _value |-> <<>>]

BlockParam(child) ==
    NewParam(child, NameParts(child.name), BlkLocation(child.location.start, child.location.start))

\* processFile 422-474: the params one child block adds to its parent, in order
ChildParams(child) ==
    LET from == IF child.name = groupBlock THEN child.blocks ELSE <<child>>
    IN  (IF child.name = groupBlock
         THEN [i \in DOMAIN child.params |-> GroupParam(child.params[i])]
         ELSE <<>>)
        \o [i \in DOMAIN from |-> BlockParam(from[i])]

NewParams(blk) == Flatten([i \in DOMAIN blk.blocks |-> ChildParams(blk.blocks[i])])

\* a top-level block after the loop body 422-474
FlattenBlock(blk) == [blk EXCEPT !.params = @ \o NewParams(blk)]

\* the document processFile leaves in blkFile: cleanup, then every top-level
\* block gets the synthetic params of its children
FlattenBlocks(clean) ==
    [clean EXCEPT !.blocks = [i \in DOMAIN @ |-> FlattenBlock(@[i])]]

Normalize(blkFile) == FlattenBlocks(cleanupBlkBlock(blkFile))

\* addCompletion: the item pushed for (name, type, kind), none for an empty name
CompletionItems(name, type, kind) ==
    IF Len(name) = 0 THEN <<>>
    ELSE << [label |-> IF Len(type) = 0 THEN name ELSE name \o <<":">> \o type,
             kind |-> kind] >>

ParamItems(params) ==
    Flatten([i \in DOMAIN params |-> CompletionItems(params[i]._name, params[i]._type, KindField)])

\* the items processFile pushes for one top-level block blk that had n params
\* before its children were flattened: the new params (438, 455, 472), the
\* block (475), then every param (482)
BlockItems(n, blk) ==
    ParamItems(SubSeq(blk.params, n + 1, Len(blk.params)))
    \o CompletionItems(blk.name, <<>>, KindStruct)
    \o ParamItems(blk.params)

IsExtends(param) ==
    param._name = extendsField /\ param._type = TypeT /\ Len(param._value) > 0

IsTemplate(param) ==
    param._name = templateField /\ param._type = TypeT /\ Len(param._value) > 0

\* processFile 477-481: the parent names of the _extends params of blk
ExtendsNames(blk) ==
    Flatten([i \in DOMAIN blk.params |->
        IF IsExtends(blk.params[i]) THEN <<removeQuotes(blk.params[i]._value)>> ELSE <<>>])

\* processFile 485-489: the template names of the _template params of an entity
EntityNames(blk) ==
    IF blk.name = entityWithTemplateName
    THEN Flatten([i \in DOMAIN blk.params |->
             IF IsTemplate(blk.params[i]) THEN splitAndRemoveQuotes(blk.params[i]._value) ELSE <<>>])
    ELSE <<>>

\* processFile 415-420: one count per pair i < j of equally named top-level blocks
TemplatePairs(blocks) ==
    LET names == {blocks[i].name : i \in DOMAIN blocks} \ {entityWithTemplateName}
        pairs(n) == {p \in (DOMAIN blocks) \X (DOMAIN blocks) :
                        p[1] < p[2] /\ blocks[p[1]].name = n /\ blocks[p[2]].name = n}
    IN  [n \in {m \in names : pairs(m) # {}} |-> Cardinality(pairs(n))]

\* processFile 412-490: the completion items and the three count maps of the
\* parsed tree blkFile, whose document is doc
FileEntries(blkFile, doc) ==
    [completion |-> Flatten([i \in DOMAIN doc.blocks |->
                       BlockItems(Len(blkFile.blocks[i].params), doc.blocks[i])]),
     extendsInFile |-> CountOf(Flatten([i \in DOMAIN doc.blocks |-> ExtendsNames(doc.blocks[i])])),
     entitiesInScene |-> CountOf(Flatten([i \in DOMAIN doc.blocks |-> EntityNames(doc.blocks[i])])),
     templatesInFile |-> TemplatePairs(doc.blocks)]

\* Normalize and FileEntries of the trees the parser returns, computed once
DocG1 == Normalize(TreeG1)
DocG2 == Normalize(TreeG2)
DocG3 == Normalize(TreeG3)
DocG4 == Normalize(TreeG4)
EntriesG1 == FileEntries(TreeG1, DocG1)
EntriesG2 == FileEntries(TreeG2, DocG2)
EntriesG3 == FileEntries(TreeG3, DocG3)
EntriesG4 == FileEntries(TreeG4, DocG4)

Document(blkFile) ==
    IF blkFile = TreeG1 THEN DocG1
    ELSE IF blkFile = TreeG2 THEN DocG2
    ELSE IF blkFile = TreeG3 THEN DocG3
    ELSE IF blkFile = TreeG4 THEN DocG4
    ELSE Normalize(blkFile)

Entries(blkFile, doc) ==
    IF blkFile = TreeG1 /\ doc = DocG1 THEN EntriesG1
    ELSE IF blkFile = TreeG2 /\ doc = DocG2 THEN EntriesG2
    ELSE IF blkFile = TreeG3 /\ doc = DocG3 THEN EntriesG3
    ELSE IF blkFile = TreeG4 /\ doc = DocG4 THEN EntriesG4
    ELSE FileEntries(blkFile, doc)

(***************************************************************************)
(* The file system the server runs on.  Paths are strings; a directory     *)
(* lists its entries in the order readdir returns them.                    *)
(*   /a        workspace root: files /a/f and /a/h, directory /a/d         *)
(*   /a/d      file /a/d/g                                                 *)
(*   /bc       workspace root, empty                                       *)
(*   /b        a file outside every root                                   *)
(* /a/f, /a/d/g and /b carry the extension .blk, /a/h does not.            *)
(***************************************************************************)
RootA == <<"/", "a">>
RootB == <<"/", "b", "c">>
DirAD == <<"/", "a", "/", "d">>
FileAF == <<"/", "a", "/", "f">>
FileAH == <<"/", "a", "/", "h">>
FileADG == <<"/", "a", "/", "d", "/", "g">>
FileB == <<"/", "b">>

Roots == {RootA, RootB}
Dirs == {RootA, RootB, DirAD}
Paths == {FileAF, FileADG, FileB}

\* the files the editor opens in a run
EditorPaths == {FileAF, FileB}

\* readdir(dir) resolved against dir
DirEntries(dir) ==
    IF dir = RootA THEN <<FileAF, DirAD, FileAH>>
    ELSE IF dir = DirAD THEN <<FileADG>>
    ELSE <<>>

\* extname(file).toLowerCase() == ".blk"
IsBlk(file) == file \in Paths

\* what an edit buffer or a file on disk can hold: a text, with or without a
\* leading byte order mark
Text(bom, src) == [bom |-> bom, src |-> src]
EditTexts == {Text(FALSE, "g2"), Text(FALSE, "bad")}

\* the data of a read that failed
ReadErr == [state |-> "readErr"]

\* what a read of fsPath can deliver in a run
DiskTexts(fsPath) ==
    IF fsPath = FileAF THEN {Text(TRUE, "g1"), Text(FALSE, "bad"), ReadErr}
    ELSE IF fsPath = FileADG THEN {Text(TRUE, "g1"), ReadErr}
    ELSE {Text(TRUE, "g1"), Text(FALSE, "blank")}
AllDiskTexts == UNION {DiskTexts(f) : f \in Paths}

\* workspaceFsPath = null
NoWorkspace == <<>>

(***************************************************************************)
(* Maps.  A Map whose iteration order the code never observes is a         *)
(* function; `completion`, whose order decides completionCache, is the     *)
(* sequence of its entries in insertion order.                             *)
(***************************************************************************)
Has(m, k) == k \in DOMAIN m
Put(m, k, v) == [x \in (DOMAIN m) \cup {k} |-> IF x = k THEN v ELSE m[x]]
Del(m, k) == [x \in (DOMAIN m) \ {k} |-> m[x]]
Empty == <<>>

OrdHas(m, k) == \E i \in DOMAIN m : m[i].key = k
OrdGet(m, k) == m[CHOOSE i \in DOMAIN m : m[i].key = k].value
OrdDel(m, k) == SelectSeq(m, LAMBDA e : e.key # k)
(***************************************************************************)
(* The index.  The operators below work on a record s of the module-level  *)
(* state of server.ts (298-311) plus what is in flight (pending reads,     *)
(* running walks) and what the step has done so far (sent, purged,         *)
(* rescans).                                                               *)
(***************************************************************************)
SeverityError == "Error"
SeverityHint == "Hint"

\* a purge that forgets the completion list (the C2 property fails for it)
purgeFileKeepingCompletion(s, fsPath) ==
    [s EXCEPT !.fileContents = Del(@, fsPath),
              !.files = Del(@, fsPath),
              !.usagesInvalid = TRUE,
              !.extendsInFiles = Del(@, fsPath),
              !.entitiesInScenes = Del(@, fsPath),
              !.templatesInFiles = Del(@, fsPath),
              !.completionCacheInvalid = TRUE,
              !.purged = @ \cup {fsPath},
              !.produced = IF Has(@, fsPath) THEN [@ EXCEPT ![fsPath].purged = TRUE] ELSE @]

\* a purge that leaves the usage map marked up to date (the C23 property
\* fails for it)
purgeFileKeepingUsages(s, fsPath) ==
    [s EXCEPT !.fileContents = Del(@, fsPath),
              !.files = Del(@, fsPath),
              !.extendsInFiles = Del(@, fsPath),
              !.entitiesInScenes = Del(@, fsPath),
              !.templatesInFiles = Del(@, fsPath),
              !.completionCacheInvalid = TRUE,
              !.completion = OrdDel(@, fsPath),
              !.purged = @ \cup {fsPath},
              !.produced = IF Has(@, fsPath) THEN [@ EXCEPT ![fsPath].purged = TRUE] ELSE @]

\* purgeFile
purgeFile(s, fsPath) ==
    [s EXCEPT !.fileContents = Del(@, fsPath),
              !.files = Del(@, fsPath),
              !.usagesInvalid = TRUE,
              !.extendsInFiles = Del(@, fsPath),
              !.entitiesInScenes = Del(@, fsPath),
              !.templatesInFiles = Del(@, fsPath),
              !.completionCacheInvalid = TRUE,
              !.completion = OrdDel(@, fsPath),
              !.purged = @ \cup {fsPath},
              !.produced = IF Has(@, fsPath) THEN [@ EXCEPT ![fsPath].purged = TRUE] ELSE @]

\* a store that leaves the old map in place when the new one is empty (the C8
\* property fails for it)
PutKeepingOld(m, fsPath, counts) ==
    IF DOMAIN counts = {} THEN m ELSE Put(m, fsPath, counts)

\* a per-file map is stored only when it has an entry (491-496)
PutIfAny(m, fsPath, counts) ==
    IF DOMAIN counts = {} THEN Del(m, fsPath) ELSE Put(m, fsPath, counts)

\* processFile: the index after processing the parse tree blkFile of fsPath
\* (the document it leaves in blkFile is Normalize(blkFile))
OrdPutIfAny(m, fsPath, items) ==
    IF items = <<>> THEN OrdDel(m, fsPath)
    ELSE Append(OrdDel(m, fsPath), [key |-> fsPath, value |-> items])

\* a processFile that clears the maps of every file instead of deleting the
\* entries of fsPath (the C12 property fails for it)
storeEntriesAlone(s, fsPath, e) ==
    [s EXCEPT !.completionCacheInvalid = TRUE,
              !.completion = OrdPutIfAny(<<>>, fsPath, e.completion),
              !.usagesInvalid = TRUE,
              !.extendsInFiles = PutIfAny(Empty, fsPath, e.extendsInFile),
              !.entitiesInScenes = PutIfAny(Empty, fsPath, e.entitiesInScene),
              !.templatesInFiles = PutIfAny(Empty, fsPath, e.templatesInFile)]

\* processFile 404-496 for the parsed tree blkFile and the document doc that
\* the cleanup and the flattening make of it
storeEntries(s, fsPath, e) ==
    [s EXCEPT !.completionCacheInvalid = TRUE,
              !.completion = OrdPutIfAny(@, fsPath, e.completion),
              !.usagesInvalid = TRUE,
              !.extendsInFiles = PutIfAny(@, fsPath, e.extendsInFile),
              !.entitiesInScenes = PutIfAny(@, fsPath, e.entitiesInScene),
              !.templatesInFiles = PutIfAny(@, fsPath, e.templatesInFile)]

processDoc(s, fsPath, blkFile, doc) == storeEntries(s, fsPath, Entries(blkFile, doc))

processFile(s, fsPath, blkFile) == processDoc(s, fsPath, blkFile, Document(blkFile))

\* getTemplates: the top-level blocks named name of every indexed document
getTemplates(s, name) ==
    UNION {{[name |-> name, filePath |-> f, location |-> s.files[f].blocks[i].location] :
               i \in {j \in DOMAIN s.files[f].blocks : s.files[f].blocks[j].name = name}} :
           f \in {g \in DOMAIN s.files : s.files[g] # Null}}

Diag(message, name, location, severity) ==
    [message |-> message, name |-> name, range |-> location, severity |-> severity]

\* findings that pass over a repeated segment (the C30 property fails for them)
PartsDiagsUnknownOnly(s, param, parts) ==
    SelectSeq([i \in DOMAIN parts |->
                  IF getTemplates(s, parts[i]) = {}
                  THEN Diag("Unknown template", parts[i], param.location, SeverityError)
                  ELSE Null], LAMBDA d : d # Null)

\* validateFile 507-528: the findings for one _template param of an entity
PartsDiags(s, param, parts) ==
    SelectSeq([i \in DOMAIN parts |->
                  IF getTemplates(s, parts[i]) = {}
                  THEN Diag("Unknown template", parts[i], param.location, SeverityError)
                  ELSE Null], LAMBDA d : d # Null)
    \o SelectSeq([i \in DOMAIN parts |->
                  IF \E j \in 1..(i - 1) : parts[j] = parts[i]
                  THEN Diag("Template duplicate", parts[i], param.location, SeverityError)
                  ELSE Null], LAMBDA d : d # Null)

TemplateDiags(s, param) == PartsDiags(s, param, splitAndRemoveQuotes(param._value))

\* findings that pass over a parent declared more than once (the C16
\* property fails for them)
ParentDiagsNoHint(blk, param, parentName, parents) ==
    (IF parentName = blk.name
     THEN <<Diag("Recursively dependency", parentName, param.location, SeverityError)>>
     ELSE <<>>)
    \o (IF Cardinality(parents) = 0
        THEN <<Diag("Unknown parent template", parentName, param.location, SeverityError)>>
        ELSE <<>>)

\* findings that pass over a block extending itself (the C19 property fails
\* for them)
ParentDiagsNoRecursion(blk, param, parentName, parents) ==
    IF Cardinality(parents) = 0
    THEN <<Diag("Unknown parent template", parentName, param.location, SeverityError)>>
    ELSE IF Cardinality(parents) > 1
    THEN <<Diag("Multiple templates", parentName, param.location, SeverityHint)>>
    ELSE <<>>

\* findings that report a parent declared more than once as an error (the
\* C29 property fails for them)
ParentDiagsErrorsOnly(blk, param, parentName, parents) ==
    (IF parentName = blk.name
     THEN <<Diag("Recursively dependency", parentName, param.location, SeverityError)>>
     ELSE <<>>)
    \o (IF Cardinality(parents) = 0
        THEN <<Diag("Unknown parent template", parentName, param.location, SeverityError)>>
        ELSE IF Cardinality(parents) > 1
        THEN <<Diag("Multiple templates", parentName, param.location, SeverityError)>>
        ELSE <<>>)

\* validateFile 532-553: the findings for one _extends param of blk
ParentDiags(blk, param, parentName, parents) ==
    (IF parentName = blk.name
     THEN <<Diag("Recursively dependency", parentName, param.location, SeverityError)>>
     ELSE <<>>)
    \o (IF Cardinality(parents) = 0
        THEN <<Diag("Unknown parent template", parentName, param.location, SeverityError)>>
        ELSE IF Cardinality(parents) > 1
        THEN <<Diag("Multiple templates", parentName, param.location, SeverityHint)>>
        ELSE <<>>)

ExtendsDiags(s, blk, param) ==
    ParentDiags(blk, param, removeQuotes(param._value),
                getTemplates(s, removeQuotes(param._value)))

BlockDiags(s, blk) ==
    (IF blk.name = entityWithTemplateName
     THEN Flatten([i \in DOMAIN blk.params |->
              IF IsTemplate(blk.params[i]) THEN TemplateDiags(s, blk.params[i]) ELSE <<>>])
     ELSE <<>>)
    \o Flatten([i \in DOMAIN blk.params |->
              IF IsExtends(blk.params[i]) THEN ExtendsDiags(s, blk, blk.params[i]) ELSE <<>>])

\* validateFile: the findings it pushes, in order
validateFile(s, blkFile) ==
    Flatten([i \in DOMAIN blkFile.blocks |-> BlockDiags(s, blkFile.blocks[i])])

\* updateDiagnostics: validates blk (when not null) and publishes
updateDiagnostics(s, fsPath, blk, diagnostics) ==
    [s EXCEPT !.diagnostics = Put(@, fsPath,
                  diagnostics \o (IF blk # Null THEN validateFile(s, blk) ELSE <<>>)),
              !.sent = @ \cup {fsPath}]

(***************************************************************************)
(* scanFile.  A scan is the record of one call of scanFile: its arguments, *)
(* the walk it belongs to (0: none) and what awaits its promise (cont).    *)
(* The file system reads the file at some moment between the call of       *)
(* readFile and its callback; nothing observes the data before the         *)
(* callback, which therefore draws it.  preEdit marks a pending scan that  *)
(* was started before an edit of the same path was indexed: its read may   *)
(* have happened before that edit.                                         *)
(***************************************************************************)
Scan(fsPath, workspaceFsPath, diagnostic, lazy, walk, cont) ==
    [fsPath |-> fsPath, workspaceFsPath |-> workspaceFsPath, diagnostic |-> diagnostic,
     lazy |-> lazy, walk |-> walk, cont |-> cont, preEdit |-> FALSE]

BagAdd(b, e) == IF e \in DOMAIN b THEN [b EXCEPT ![e] = @ + 1] ELSE Put(b, e, 1)
BagDel(b, e) == IF b[e] > 1 THEN [b EXCEPT ![e] = @ - 1] ELSE Del(b, e)

\* !workspaceFsPath || workspaces.has(workspaceFsPath)
WorkspaceOk(s, scan) ==
    scan.workspaceFsPath = NoWorkspace \/ scan.workspaceFsPath \in s.workspaces

\* a scan that never stores its document (the C3 property fails for it)
KeepFiles(s, scan, blk) == s

\* scanFile.onFile 582-583
StoreDoc(s, scan, blk) ==
    IF WorkspaceOk(s, scan) THEN [s EXCEPT !.files = Put(@, scan.fsPath, blk)] ELSE s

\* scanFile.onFile 584-585
Publish(s, scan, blk, diagnostics) ==
    IF scan.diagnostic THEN updateDiagnostics(s, scan.fsPath, blk, diagnostics) ELSE s

\* a scan that validates before it stores its document (the C37 property
\* fails for it)
onFileParsedValidatingFirst(s, scan, blkFile, blk) ==
    StoreDoc(Publish(processDoc(s, scan.fsPath, blkFile, blk), scan, blk, <<>>), scan, blk)

\* scanFile.onFile 580-586: parse returned blkFile, which processFile turns into blk
onFileParsed(s, scan, blkFile, blk) ==
    Publish(StoreDoc(processDoc(s, scan.fsPath, blkFile, blk), scan, blk), scan, blk, <<>>)

\* a failure that stores null for a lazy scan too (the C9 property fails for it)
StoreNullAlways(s, scan) ==
    IF WorkspaceOk(s, scan) THEN [s EXCEPT !.files = Put(@, scan.fsPath, Null)] ELSE s

\* scanFile.onFile 602-603
StoreNull(s, scan) ==
    IF ~scan.lazy /\ WorkspaceOk(s, scan) THEN [s EXCEPT !.files = Put(@, scan.fsPath, Null)] ELSE s

\* scanFile.onFile 587-605: parse throws
onFileFailed(s, scan, txt) ==
    StoreNull(Publish(s, scan, Null,
                      IF NonBlank(txt) /\ scan.diagnostic
                      THEN <<Diag("ParseError", <<>>, ErrLocation(txt), SeverityError)>>
                      ELSE <<>>),
              scan)

\* an onFile that records null for a file that could not be read (the C13
\* property fails for it)
onFileStoringNull(s, scan, data, txt, blk) ==
    IF data = ReadErr THEN StoreNull(s, scan)
    ELSE IF blk # Null THEN onFileParsed(s, scan, parse(txt), blk)
    ELSE onFileFailed(s, scan, txt)

\* scanFile.onFile(err, data) with the text txt that is left of data (576-578)
\* and the document blk the promise resolves to
onFile(s, scan, data, txt, blk) ==
    IF data = ReadErr THEN s
    ELSE IF blk # Null THEN onFileParsed(s, scan, parse(txt), blk)
    ELSE onFileFailed(s, scan, txt)

\* scanFile.onFile 576-578: the text that is parsed
Stripped(data) == IF data = ReadErr THEN data ELSE StripBom(data)

\* the value scanFile's promise resolves to
ScanResult(data, txt) ==
    IF data # ReadErr /\ ParseOk(txt) THEN Document(parse(txt)) ELSE Null

\* a sum that counts one file only (the C11 property fails for it)
OneOf(m, key) ==
    IF \E f \in DOMAIN m : key \in DOMAIN m[f]
    THEN m[CHOOSE f \in DOMAIN m : key \in DOMAIN m[f]][key]
    ELSE 0

\* onCodeLens 206-221: usagesMap rebuilt from the per-file maps
SumOver(m, key) ==
    LET RECURSIVE Sum(_)
        Sum(fs) == IF fs = {} THEN 0
                   ELSE LET f == CHOOSE g \in fs : TRUE
                        IN  (IF key \in DOMAIN m[f] THEN m[f][key] ELSE 0) + Sum(fs \ {f})
    IN  Sum(DOMAIN m)

KeysOf(m) == UNION {DOMAIN m[f] : f \in DOMAIN m}

RebuildUsages(s) ==
    [key \in KeysOf(s.extendsInFiles) \cup KeysOf(s.entitiesInScenes) \cup KeysOf(s.templatesInFiles) |->
        SumOver(s.extendsInFiles, key) + SumOver(s.entitiesInScenes, key) + SumOver(s.templatesInFiles, key)]

\* onCodeLens 223-231: one lens per top-level block whose name has usages
Lenses(s, blkFile) ==
    SelectSeq([i \in DOMAIN blkFile.blocks |->
                  IF removeQuotes(blkFile.blocks[i].name) \in DOMAIN s.usagesMap
                  THEN [range |-> blkFile.blocks[i].location,
                        count |-> s.usagesMap[removeQuotes(blkFile.blocks[i].name)]]
                  ELSE Null],
              LAMBDA l : l # Null)

Return(s, value) == [s EXCEPT !.ret = value]

UsagesRebuilt(s) ==
    IF s.usagesInvalid
    THEN [s EXCEPT !.usagesMap = RebuildUsages(s), !.usagesInvalid = FALSE]
    ELSE s

WithLenses(s, blkFile) == Return(s, Lenses(s, blkFile))

\* onCodeLens 203-231, after the await of getOrScanFileUri
codeLens(s, blkFile) ==
    IF blkFile = Null THEN Return(s, Null) ELSE WithLenses(UsagesRebuilt(s), blkFile)

\* what runs when the promise of scan resolves to result
Continue(s, scan, result) ==
    IF scan.cont = "codeLens" THEN codeLens(s, result)
    ELSE IF scan.cont = "query" THEN Return(s, result)
    ELSE s

\* What a scan of fsPath produced, kept for comparison with a later scan of
\* the same text: the promise's value and, when the text parsed, the per-file
\* entries processFile wrote.  purged is set by a later purgeFile(fsPath).
Lookup(m, k) == IF Has(m, k) THEN {m[k]} ELSE {}
OrdLookup(m, k) == IF OrdHas(m, k) THEN {OrdGet(m, k)} ELSE {}

Derived(s, fsPath) ==
    [extendsInFile |-> Lookup(s.extendsInFiles, fsPath),
     entitiesInScene |-> Lookup(s.entitiesInScenes, fsPath),
     templatesInFile |-> Lookup(s.templatesInFiles, fsPath),
     completion |-> OrdLookup(s.completion, fsPath)]

NoDerived ==
    [extendsInFile |-> {}, entitiesInScene |-> {}, templatesInFile |-> {}, completion |-> {}]

Remember(s, scan, data, result) ==
    IF data = ReadErr THEN s
    ELSE [s EXCEPT !.produced = Put(@, scan.fsPath,
             [text |-> data, result |-> result, purged |-> FALSE,
              derived |-> IF result # Null THEN Derived(s, scan.fsPath) ELSE NoDerived])]

\* the index right after onFile(err, data), before the promise resolves
afterOnFile(s, scan, data) ==
    onFile(s, scan, data, Stripped(data), ScanResult(data, Stripped(data)))

\* onFile runs with data, then the promise resolves to result
resolve(s, scan, data, txt, result) ==
    Continue(Remember(onFile(s, scan, data, txt, result), scan, data, result), scan, result)

deliverText(s, scan, data, txt) == resolve(s, scan, data, txt, ScanResult(data, txt))

\* the read of scan has delivered data
deliver(s, scan, data) == deliverText(s, scan, data, Stripped(data))

\* a scan that always reads the disk (the C26 property fails for it)
scanFromDisk(s, scan) == [s EXCEPT !.pending = BagAdd(@, scan)]

\* scanFile: the buffer of an edited file is parsed at once, a file without
\* one is read from disk and parsed when the read completes
scanFile(s, scan) ==
    IF Has(s.fileContents, scan.fsPath)
    THEN deliver(s, scan, s.fileContents[scan.fsPath])
    ELSE [s EXCEPT !.pending = BagAdd(@, scan)]

\* a getOrScanFile that ignores the cache (the C10 property fails for it)
scanAnyway(s, filePath, diagnostic, cont) ==
    scanFile(s, Scan(filePath, NoWorkspace, diagnostic, FALSE, 0, cont))

\* getOrScanFile
getOrScanFile(s, filePath, diagnostic, cont) ==
    IF Has(s.files, filePath)
    THEN Continue(s, Scan(filePath, NoWorkspace, diagnostic, FALSE, 0, cont), s.files[filePath])
    ELSE scanFile(s, Scan(filePath, NoWorkspace, diagnostic, FALSE, 0, cont))

\* rescanOpenFiles: openFiles is iterated in insertion order
RECURSIVE rescanEach(_, _)
rescanEach(s, open) ==
    IF open = <<>> THEN s
    ELSE rescanEach(scanFile(s, Scan(Head(open), NoWorkspace, TRUE, FALSE, 0, "none")), Tail(open))

rescanOpenFiles(s) == [rescanEach(s, s.openFiles) EXCEPT !.usagesInvalid = TRUE]

(***************************************************************************)
(* The workspace walk (fsUtils.ts walk, server.ts scanWorkspace).  A walk  *)
(* is known by a number; walks[w].dirs are the directories whose readdir   *)
(* has not called back yet.  The promise of the whole walk resolves when   *)
(* no readdir and no scan of the walk is outstanding.                      *)
(***************************************************************************)
IsDirectory(file) == file \in Dirs

\* scanWorkspace's visitor for one file
visit(s, w, file) ==
    IF IsBlk(file)
    THEN scanFile(s, Scan(file, s.walks[w].root, FALSE, FALSE, w, "none"))
    ELSE s

\* walk 12-19: the entries of a directory, in order
RECURSIVE walkEntries(_, _, _)
walkEntries(s, w, list) ==
    IF list = <<>> THEN s
    ELSE walkEntries(
             IF IsDirectory(Head(list))
             THEN [s EXCEPT !.walks[w].dirs = @ \cup {Head(list)}]
             ELSE visit(s, w, Head(list)),
             w, Tail(list))

\* a walk that waits for its directories only (the C4 property fails for it)
DirsRead(s, w) == s.walks[w].dirs = {}

WalkSettled(s, w) ==
    /\ s.walks[w].dirs = {}
    /\ \A scan \in DOMAIN s.pending : scan.walk # w

\* addWorkspaceUri 327-331: after the walk, the open files are scanned again
afterWalk(s, w) ==
    IF w \in DOMAIN s.walks /\ WalkSettled(s, w)
    THEN rescanOpenFiles([s EXCEPT !.walks = Del(@, w), !.rescans = @ \cup {w}])
    ELSE s

\* the callback of readdir(dir) in walk w; err: whether readdir failed
readdirDone(s, w, dir, err) ==
    afterWalk(walkEntries([s EXCEPT !.walks[w].dirs = @ \ {dir}], w,
                          IF err THEN <<>> ELSE DirEntries(dir)), w)

\* addWorkspaceUri
addWorkspaceUri(s, fsPath) ==
    [s EXCEPT !.workspaces = @ \cup {fsPath},
              !.walkCount = @ + 1,
              !.walks = Put(@, s.walkCount + 1, [root |-> fsPath, dirs |-> {fsPath}])]

\* isFileInWorkspaces
isFileInWorkspaces(s, fsPath) == \E ws \in s.workspaces : StartsWith(ws, fsPath)

RECURSIVE purgeEach(_, _)
purgeEach(s, removeFiles) ==
    IF removeFiles = <<>> THEN s
    ELSE purgeEach(purgeFile(s, Head(removeFiles)), Tail(removeFiles))

\* removeWorkspaceUri 344-357: the index right before the rescan
clearOrPurge(s) ==
    IF s.workspaces = {}
    THEN [s EXCEPT !.files = Empty]
    ELSE purgeEach(s, SelectSeq(s.openFiles, LAMBDA f : isFileInWorkspaces(s, f)))

removeWorkspaceFiles(s, fsPath) == clearOrPurge([s EXCEPT !.workspaces = @ \ {fsPath}])

\* removeWorkspaceUri
removeWorkspaceUri(s, fsPath) == rescanOpenFiles(removeWorkspaceFiles(s, fsPath))

(***************************************************************************)
(* The editor's notifications and requests                                 *)
(***************************************************************************)
\* onDidChangeTextDocument; contentChanges holds the new text, if any
onDidChangeTextDocument(s, fsPath, contentChanges) ==
    scanFile(IF Len(contentChanges) > 0
             THEN [s EXCEPT !.fileContents = Put(@, fsPath, contentChanges[1])]
             ELSE s,
             Scan(fsPath, NoWorkspace, FALSE, TRUE, 0, "none"))

SetAdd(seq, e) == IF e \in Range(seq) THEN seq ELSE Append(seq, e)
SetDelete(seq, e) == SelectSeq(seq, LAMBDA x : x # e)

\* onDidOpenTextDocument
onDidOpenTextDocument(s, fsPath) ==
    getOrScanFile([purgeFile(s, fsPath) EXCEPT !.openFiles = SetAdd(@, fsPath)],
                  fsPath, TRUE, "none")

\* a save that rescans without purging (the C25 property fails for it)
saveWithoutPurge(s, fsPath) == getOrScanFile(s, fsPath, TRUE, "none")

\* onDidSaveTextDocument
onDidSaveTextDocument(s, fsPath) == getOrScanFile(purgeFile(s, fsPath), fsPath, TRUE, "none")

\* onDidCloseTextDocument
onDidCloseTextDocument(s, fsPath) ==
    getOrScanFile([purgeFile(s, fsPath) EXCEPT !.diagnostics = Put(@, fsPath, <<>>),
                                               !.sent = @ \cup {fsPath},
                                               !.openFiles = SetDelete(@, fsPath)],
                  fsPath, FALSE, "none")

\* getOrScanFileUri as the requests call it (onDocumentSymbol, onDefinition,
\* onHover, onReferences, onRenameRequest, onPrepareRename)
getOrScanFileUri(s, fsPath) == getOrScanFile(s, fsPath, FALSE, "query")

\* onCodeLens
onCodeLens(s, fsPath) == getOrScanFile(s, fsPath, FALSE, "codeLens")

\* a rebuild that keeps every item (the C24 property fails for it)
KeepAll(items, seen) == items

\* onCompletion 186-191: the first item of every label, in iteration order
RECURSIVE Dedupe(_, _)
Dedupe(items, seen) ==
    IF items = <<>> THEN <<>>
    ELSE IF Head(items).label \in seen THEN Dedupe(Tail(items), seen)
    ELSE <<Head(items)>> \o Dedupe(Tail(items), seen \cup {Head(items).label})

\* onCompletion
CacheRebuilt(s) ==
    IF s.completionCacheInvalid
    THEN [s EXCEPT !.completionCacheInvalid = FALSE,
                   !.completionCache =
                       Dedupe(Flatten([i \in DOMAIN s.completion |-> s.completion[i].value]), {})]
    ELSE s

ReturnCache(s) == Return(s, s.completionCache)

onCompletion(s) == ReturnCache(CacheRebuilt(s))

(***************************************************************************)
(* The query engine: getParamAt, onDefinition, findAllReferences,          *)
(* findAllTemplatesWithParam, findAllReferencesAt and the requests that    *)
(* call them.  A position is the editor's: line and character from 0.      *)
(***************************************************************************)
overrideField == <<"_", "o", "v", "e", "r", "r", "i", "d", "e">>
importField == <<"i", "m", "p", "o", "r", "t">>
importSceneField == <<"s", "c", "e", "n", "e">>

Position(line, character) == [line |-> line, character |-> character]

\* BlkPosition.toPosition
toPosition(pos) == Position(pos.line - 1, pos.column - 1)

\* BlkLocation.toRange
toRange(loc) == [start |-> toPosition(loc.start), end |-> toPosition(loc.end)]

\* BlkPosition.less
less(a, b) == a.line < b.line \/ (a.line = b.line /\ a.column < b.column)

\* BlkLocation.isPosInLocation
isPosInLocation(location, position) ==
    /\ ~(\/ position.line < location.start.line - 1
         \/ (/\ position.line = location.start.line - 1
             /\ position.character < location.start.column - 1))
    /\ ~(\/ position.line > location.end.line - 1
         \/ (/\ position.line = location.end.line - 1
             /\ position.character > location.end.column - 1))

\* the first index of seq whose element satisfies P, 0 when there is none
FirstIdx(seq, P(_)) ==
    IF \E i \in DOMAIN seq : P(seq[i])
    THEN CHOOSE i \in DOMAIN seq : P(seq[i]) /\ \A j \in 1..(i - 1) : ~P(seq[j])
    ELSE 0

\* some include of includes holds position
InIncludes(includes, position) ==
    FirstIdx(includes, LAMBDA inc : isPosInLocation(inc.location, position))

\* getParamAt 668-671: neither a block nor a param of blkFile holds position
IncludeAt(blkFile, position, depth, parent) ==
    IF InIncludes(blkFile.includes, position) # 0
    THEN [res |-> Null, include |-> blkFile.includes[InIncludes(blkFile.includes, position)],
          depth |-> depth, parent |-> parent]
    ELSE Null

\* getParamAt 664-671: no block of blkFile stopped the first loop
ParamAt(blkFile, position, depth, parent, i) ==
    IF i # 0
    THEN [res |-> blkFile.params[i], include |-> Null, depth |-> depth, parent |-> parent]
    ELSE IncludeAt(blkFile, position, depth, parent)

\* a lookup that enters top-level blocks only (the C32 property fails for it)
getParamAtShallow(blkFile, position, depth, parent) ==
    LET i == FirstIdx(blkFile.blocks, LAMBDA blk : isPosInLocation(blk.location, position))
    IN  IF i = 0
        THEN ParamAt(blkFile, position, depth, parent,
                 FirstIdx(blkFile.params, LAMBDA param : isPosInLocation(param.location, position)))
        ELSE ParamAt(blkFile.blocks[i], position, depth + 1, blkFile.blocks[i],
                 FirstIdx(blkFile.blocks[i].params,
                          LAMBDA param : isPosInLocation(param.location, position)))

\* getParamAt: the first block that holds position is entered (and what it
\* finds returned, null too); a block that does not may hold it in an include
RECURSIVE getParamAt(_, _, _, _)
getParamAt(blkFile, position, depth, parent) ==
    LET i == FirstIdx(blkFile.blocks,
                 LAMBDA blk : \/ isPosInLocation(blk.location, position)
                              \/ InIncludes(blk.includes, position) # 0)
    IN  IF i = 0
        THEN ParamAt(blkFile, position, depth, parent,
                 FirstIdx(blkFile.params, LAMBDA param : isPosInLocation(param.location, position)))
        ELSE IF isPosInLocation(blkFile.blocks[i].location, position)
        THEN getParamAt(blkFile.blocks[i], position, depth + 1, blkFile.blocks[i])
        ELSE [res |-> Null,
              include |-> blkFile.blocks[i].includes[InIncludes(blkFile.blocks[i].includes, position)],
              depth |-> depth, parent |-> parent]

\* getRootBlock
getRootBlock(blkFile, loc) ==
    LET i == FirstIdx(blkFile.blocks,
                 LAMBDA blk : less(blk.location.start, loc.start) /\ less(loc.end, blk.location.end))
    IN  IF i = 0 THEN Null ELSE blkFile.blocks[i]

\* getTemplates as the array it is: the files in the order FileOrder, the
\* blocks of a file in document order
FileOrder == <<FileAF, FileAH, FileADG, FileB>>

Indexed(s) == SelectSeq(FileOrder, LAMBDA f : Has(s.files, f) /\ s.files[f] # Null)

TemplatesIn(s, f, name) ==
    LET blocks == SelectSeq(s.files[f].blocks, LAMBDA blk : blk.name = name)
    IN  [i \in DOMAIN blocks |->
            [name |-> name, filePath |-> f, location |-> blocks[i].location]]

getTemplatesSeq(s, name) ==
    Flatten([k \in DOMAIN Indexed(s) |-> TemplatesIn(s, Indexed(s)[k], name)])

\* a walk that always answers with the last segment (the C18 property fails
\* for it)
LastSegment(parts, offset, name) ==
    IF parts = <<>> THEN name ELSE removeQuotes(parts[Len(parts)])

\* onDefinition 719-729: the parts are popped from the end until the
\* distance offset of the cursor from the end of the param is used up
RECURSIVE SegmentAt(_, _, _)
SegmentAt(parts, offset, name) ==
    IF parts = <<>> THEN name
    ELSE IF offset - Len(parts[Len(parts)]) <= 0 THEN removeQuotes(parts[Len(parts)])
    ELSE SegmentAt(SubSeq(parts, 1, Len(parts) - 1), offset - Len(parts[Len(parts)]) - 1, name)

\* name.indexOf("+") > 0
HasPlus(name) == Len(name) > 0 /\ name[1] # "+" /\ \E i \in DOMAIN name : name[i] = "+"

\* an answer without error when no template is found (the C17 property
\* fails for it)
ResolvedOrEmpty(res, name) == [res |-> res, name |-> name]

\* onDefinition 730-734 and 738-743: the templates named name, or the error
Resolved(res, name) ==
    IF Len(res) > 0 THEN [res |-> res, name |-> name]
    ELSE [res |-> <<>>, error |-> <<"#undefined template '">> \o name \o <<"'">>]

\* onDefinition 713-744 for the param p (with a value) found at position
ValueOrName(s, p, position, onlyExtends, offset, name) ==
    IF Len(p._name) + Len(p._type) + Len(p._value) - offset > Len(p._name)
    THEN Resolved(getTemplatesSeq(s, name), name)
    ELSE IF ~onlyExtends
    THEN (IF Len(getTemplatesSeq(s, p._name)) > 0
          THEN [res |-> getTemplatesSeq(s, p._name), name |-> p._name]
          ELSE [res |-> <<>>, error |-> <<"#undefined template '">> \o p._name \o <<"'">>])
    ELSE [res |-> <<>>, error |-> <<"#undefined template '">> \o removeQuotes(p._value) \o <<"'">>]

\* onDefinition 713-752: what is left when no import and no _override applies
AfterOverride(s, param, position, onlyExtends) ==
    IF /\ param.res # Null
       /\ Len(param.res._value) > 0
       /\ (~onlyExtends \/ (param.res._name = extendsField /\ param.res._type = TypeT))
    THEN ValueOrName(s, param.res, position, onlyExtends,
             param.res.location.end.column - 1 - position.character,
             IF HasPlus(removeQuotes(param.res._value))
             THEN SegmentAt(Split(param.res._value, "+"),
                            param.res.location.end.column - 1 - position.character,
                            removeQuotes(param.res._value))
             ELSE removeQuotes(param.res._value))
    ELSE IF param.include # Null
    THEN [include |-> param.include.value]
    ELSE [res |-> <<>>]

\* onDefinition 702-710: _override:b of a top-level block
Override(s, blkFile, param) ==
    IF /\ param.depth = 1 /\ param.res # Null
       /\ param.res._name = overrideField /\ param.res._type = <<"b">>
       /\ getRootBlock(blkFile, param.res.location) # Null
    THEN getTemplatesSeq(s, getRootBlock(blkFile, param.res.location).name)
    ELSE <<>>

\* onDefinition 681-753, given what getParamAt found.  The paths findWSFile
\* finds for an import or an include are not modelled: the result names the
\* include only.
Definition(s, blkFile, param, position, onlyExtends) ==
    IF param = Null THEN [res |-> <<>>]
    ELSE IF /\ param.depth = 0 /\ param.res # Null
            /\ param.res._name = importField /\ param.res._type = TypeT
            /\ Len(param.res._value) > 0
    THEN [include |-> removeQuotes(param.res._value)]
    ELSE IF /\ param.res # Null
            /\ param.res._name = importSceneField /\ param.res._type = TypeT
            /\ param.parent # Null /\ param.parent.name = importField
    THEN [include |-> removeQuotes(param.res._value)]
    ELSE IF Len(Override(s, blkFile, param)) > 0
    THEN [res |-> Override(s, blkFile, param),
          name |-> getRootBlock(blkFile, param.res.location).name]
    ELSE AfterOverride(s, param, position, onlyExtends)

onDefinition(s, blkFile, position, onlyExtends) ==
    Definition(s, blkFile, getParamAt(blkFile, position, 0, Null), position, onlyExtends)

\* a search that finds the bare form of the name only (the C31 property
\* fails for it)
BlockReferencesBareOnly(filePath, blk, name) ==
    (IF blk.name = entityWithTemplateName
     THEN Flatten([i \in DOMAIN blk.params |->
              IF IsTemplate(blk.params[i])
                 /\ name \in Range(splitAndRemoveQuotes(blk.params[i]._value))
              THEN << [name |-> name, filePath |-> filePath,
                       location |-> blk.params[i].location, indent |-> blk.params[i].indent] >>
              ELSE <<>>])
     ELSE IF blk.name = name
     THEN << [name |-> name, filePath |-> filePath, location |-> blk.location] >>
     ELSE <<>>)
    \o Flatten([i \in DOMAIN blk.params |->
           IF /\ blk.params[i]._name = extendsField /\ blk.params[i]._type = TypeT
              /\ blk.params[i]._value = name
           THEN << [name |-> name, filePath |-> filePath,
                    location |-> blk.params[i].location, indent |-> blk.params[i].indent] >>
           ELSE <<>>])

\* findAllReferences 768-790: what one top-level block of filePath adds
BlockReferences(filePath, blk, name) ==
    (IF blk.name = entityWithTemplateName
     THEN Flatten([i \in DOMAIN blk.params |->
              IF IsTemplate(blk.params[i])
                 /\ name \in Range(splitAndRemoveQuotes(blk.params[i]._value))
              THEN << [name |-> name, filePath |-> filePath,
                       location |-> blk.params[i].location, indent |-> blk.params[i].indent] >>
              ELSE <<>>])
     ELSE IF blk.name = name
     THEN << [name |-> name, filePath |-> filePath, location |-> blk.location] >>
     ELSE <<>>)
    \o Flatten([i \in DOMAIN blk.params |->
           IF /\ blk.params[i]._name = extendsField /\ blk.params[i]._type = TypeT
              /\ (blk.params[i]._value = name \/ blk.params[i]._value = <<Q>> \o name \o <<Q>>)
           THEN << [name |-> name, filePath |-> filePath,
                    location |-> blk.params[i].location, indent |-> blk.params[i].indent] >>
           ELSE <<>>])

FileReferences(s, f, name) ==
    Flatten([i \in DOMAIN s.files[f].blocks |-> BlockReferences(f, s.files[f].blocks[i], name)])

\* findAllReferences
findAllReferences(s, name) ==
    Flatten([k \in DOMAIN Indexed(s) |-> FileReferences(s, Indexed(s)[k], name)])

\* a search that compares the names only (the C22 property fails for it)
BlockParamsByName(filePath, blk, name, type) ==
    Flatten([i \in DOMAIN blk.params |->
        IF blk.params[i]._name = name
        THEN << [name |-> name, filePath |-> filePath,
                 location |-> blk.params[i].location, indent |-> blk.params[i].indent] >>
        ELSE <<>>])

\* findAllTemplatesWithParam 797-802: what one top-level block adds
BlockParams(filePath, blk, name, type) ==
    Flatten([i \in DOMAIN blk.params |->
        IF blk.params[i]._name = name /\ blk.params[i]._type = type
        THEN << [name |-> name, filePath |-> filePath,
                 location |-> blk.params[i].location, indent |-> blk.params[i].indent] >>
        ELSE <<>>])

FileParams(s, f, name, type) ==
    Flatten([i \in DOMAIN s.files[f].blocks |-> BlockParams(f, s.files[f].blocks[i], name, type)])

\* findAllTemplatesWithParam
findAllTemplatesWithParam(s, name, type) ==
    Flatten([k \in DOMAIN Indexed(s) |-> FileParams(s, Indexed(s)[k], name, type)])

\* findAllReferencesAt 817-823: the first param of blk at position that some
\* template has (0: none)
ParamWithTemplates(s, blk, position) ==
    FirstIdx(blk.params,
        LAMBDA param : /\ isPosInLocation(param.location, position)
                       /\ Len(findAllTemplatesWithParam(s, param._name, param._type)) > 0)

\* a search that tries the params of a block before its name (the C21
\* property fails for it)
RECURSIVE ParamSearchFirst(_, _, _, _)
ParamSearchFirst(s, filePath, blocks, position) ==
    IF blocks = <<>> THEN <<>>
    ELSE IF ~isPosInLocation(Head(blocks).location, position)
    THEN ParamSearchFirst(s, filePath, Tail(blocks), position)
    ELSE IF ParamWithTemplates(s, Head(blocks), position) # 0
    THEN findAllTemplatesWithParam(s,
             Head(blocks).params[ParamWithTemplates(s, Head(blocks), position)]._name,
             Head(blocks).params[ParamWithTemplates(s, Head(blocks), position)]._type)
    ELSE IF /\ position.line = Head(blocks).location.start.line - 1
            /\ Len(findAllReferences(s, Head(blocks).name)) > 0
    THEN << [name |-> Head(blocks).name, filePath |-> filePath,
             location |-> Head(blocks).location] >>
         \o findAllReferences(s, Head(blocks).name)
    ELSE ParamSearchFirst(s, filePath, Tail(blocks), position)

\* findAllReferencesAt 807-825, for the blocks that are left to visit
RECURSIVE ReferencesFrom(_, _, _, _)
ReferencesFrom(s, filePath, blocks, position) ==
    IF blocks = <<>> THEN <<>>
    ELSE IF ~isPosInLocation(Head(blocks).location, position)
    THEN ReferencesFrom(s, filePath, Tail(blocks), position)
    ELSE IF /\ position.line = Head(blocks).location.start.line - 1
            /\ Len(findAllReferences(s, Head(blocks).name)) > 0
    THEN << [name |-> Head(blocks).name, filePath |-> filePath,
             location |-> Head(blocks).location] >>
         \o findAllReferences(s, Head(blocks).name)
    ELSE IF ParamWithTemplates(s, Head(blocks), position) # 0
    THEN findAllTemplatesWithParam(s,
             Head(blocks).params[ParamWithTemplates(s, Head(blocks), position)]._name,
             Head(blocks).params[ParamWithTemplates(s, Head(blocks), position)]._type)
    ELSE ReferencesFrom(s, filePath, Tail(blocks), position)

findAllReferencesAt(s, filePath, blkFile, position) ==
    ReferencesFrom(s, filePath, blkFile.blocks, position)

\* onRenameRequest 250-270: the edit made of one reference
RenameEdit(data, newName) ==
    LET start == (IF "indent" \in DOMAIN data THEN data.indent.end.column - 1
                  ELSE toRange(data.location).start.character)
                 + (IF StartsWith(data.name, <<Q>>) THEN 1 ELSE 0)
    IN  [uri |-> data.filePath,
         range |-> [start |-> Position(toRange(data.location).start.line, start),
                    end |-> Position(toRange(data.location).start.line, start + Len(data.name))],
         newText |-> newName]

\* onRenameRequest 241-271, after the await of getOrScanFileUri: the edits
\* of edit.changes in the order they are pushed (changes[uri] holds those of
\* uri), null when there is no reference
RenameEdits(res, newName) ==
    IF Len(res) = 0 THEN Null ELSE [i \in DOMAIN res |-> RenameEdit(res[i], newName)]

onRenameRequest(s, fsPath, blkFile, position, newName) ==
    IF blkFile = Null THEN Null
    ELSE RenameEdits(findAllReferencesAt(s, fsPath, blkFile, position), newName)

(***************************************************************************)
(* The state machine                                                       *)
(***************************************************************************)
VARIABLES workspaces, openFiles, fileContents, files,
          extendsInFiles, entitiesInScenes, templatesInFiles, usagesInvalid, usagesMap,
          completion, completionCacheInvalid, completionCache,
          diagnostics, pending, walks, walkCount,
          produced, closed, events, last

vars == <<workspaces, openFiles, fileContents, files,
          extendsInFiles, entitiesInScenes, templatesInFiles, usagesInvalid, usagesMap,
          completion, completionCacheInvalid, completionCache,
          diagnostics, pending, walks, walkCount,
          produced, closed, events, last>>

\* the number of notifications and requests the editor sends in a run
MaxEvents == 2

NoScan == [none |-> TRUE]
NoRet == [none |-> TRUE]

\* the state a step starts from: nothing sent, purged, rescanned or returned yet
Cur ==
    [workspaces |-> workspaces, openFiles |-> openFiles, fileContents |-> fileContents,
     files |-> files, extendsInFiles |-> extendsInFiles, entitiesInScenes |-> entitiesInScenes,
     templatesInFiles |-> templatesInFiles, usagesInvalid |-> usagesInvalid,
     usagesMap |-> usagesMap, completion |-> completion,
     completionCacheInvalid |-> completionCacheInvalid, completionCache |-> completionCache,
     diagnostics |-> diagnostics, pending |-> pending, walks |-> walks,
     walkCount |-> walkCount, produced |-> produced,
     sent |-> {}, purged |-> {}, rescans |-> {}, ret |-> NoRet]

\* an index with no file in it
EmptyIndex(s) ==
    [s EXCEPT !.files = Empty, !.extendsInFiles = Empty, !.entitiesInScenes = Empty,
              !.templatesInFiles = Empty, !.completion = <<>>]

\* the step ends in s; last records which step it was, what it did and what
\* the last scan of its path had produced before it
Commit(s, op, arg, scan) ==
    /\ workspaces' = s.workspaces
    /\ openFiles' = s.openFiles
    /\ fileContents' = s.fileContents
    /\ files' = s.files
    /\ extendsInFiles' = s.extendsInFiles
    /\ entitiesInScenes' = s.entitiesInScenes
    /\ templatesInFiles' = s.templatesInFiles
    /\ usagesInvalid' = s.usagesInvalid
    /\ usagesMap' = s.usagesMap
    /\ completion' = s.completion
    /\ completionCacheInvalid' = s.completionCacheInvalid
    /\ completionCache' = s.completionCache
    /\ diagnostics' = s.diagnostics
    /\ pending' = s.pending
    /\ walks' = s.walks
    /\ walkCount' = s.walkCount
    /\ produced' = s.produced
    /\ last' = [op |-> op, arg |-> arg, scan |-> scan, sent |-> s.sent,
                purged |-> s.purged, rescans |-> s.rescans, ret |-> s.ret,
                prior |-> Lookup(produced, arg)]

Event == /\ events < MaxEvents
         /\ events' = events + 1

\* onInitialize 15-16: addWorkspaceUri for every workspace folder of the client
RECURSIVE addEach(_, _)
addEach(s, folders) ==
    IF folders = <<>> THEN s ELSE addEach(addWorkspaceUri(s, Head(folders)), Tail(folders))

WorkspaceFolders == {<<>>, <<RootA, RootB>>}

\* the state after onInitialize(folders)
InitWith(folders) ==
    LET s0 == [workspaces |-> {}, walks |-> Empty, walkCount |-> 0]
        s == addEach(s0, folders)
    IN
    /\ workspaces = s.workspaces
    /\ openFiles = <<>>
    /\ fileContents = Empty
    /\ files = Empty
    /\ extendsInFiles = Empty
    /\ entitiesInScenes = Empty
    /\ templatesInFiles = Empty
    /\ usagesInvalid = TRUE
    /\ usagesMap = Empty
    /\ completion = <<>>
    /\ completionCacheInvalid = TRUE
    /\ completionCache = <<>>
    /\ diagnostics = Empty
    /\ pending = Empty
    /\ walks = s.walks
    /\ walkCount = s.walkCount
    /\ produced = Empty
    /\ closed = {}
    /\ events = 0
    /\ last = [op |-> "init", arg |-> <<>>, scan |-> NoScan, sent |-> {},
               purged |-> {}, rescans |-> {}, ret |-> NoRet, prior |-> {}]

Init ==
    \E folders \in WorkspaceFolders : InitWith(folders)

\* the pending scans of fsPath are now older than an indexed edit
MarkPreEdit(b, fsPath) ==
    LET mark(scan) == IF scan.fsPath = fsPath
                      THEN [scan EXCEPT !.preEdit = TRUE] ELSE scan
        total(t) == LET RECURSIVE Sum(_)
                        Sum(ss) == IF ss = {} THEN 0
                                   ELSE LET x == CHOOSE y \in ss : TRUE
                                        IN  b[x] + Sum(ss \ {x})
                    IN  Sum({x \in DOMAIN b : mark(x) = t})
    IN  [t \in {mark(x) : x \in DOMAIN b} |-> total(t)]

\* after an edit whose buffer parses, the pending scans of fsPath are stale
Edited(s, fsPath) ==
    IF Has(s.fileContents, fsPath) /\ ParseOk(s.fileContents[fsPath])
    THEN [s EXCEPT !.pending = MarkPreEdit(@, fsPath)]
    ELSE s

Change(fsPath, contentChanges) ==
    /\ Event
    /\ fsPath \in Range(openFiles)
    /\ Commit(Edited(onDidChangeTextDocument(Cur, fsPath, contentChanges), fsPath),
              "change", fsPath, NoScan)
    /\ UNCHANGED closed

Open(fsPath) ==
    /\ Event
    /\ fsPath \notin Range(openFiles)
    /\ Commit(onDidOpenTextDocument(Cur, fsPath), "open", fsPath, NoScan)
    /\ closed' = closed \ {fsPath}

Save(fsPath) ==
    /\ Event
    /\ fsPath \in Range(openFiles)
    /\ Commit(onDidSaveTextDocument(Cur, fsPath), "save", fsPath, NoScan)
    /\ UNCHANGED closed

Close(fsPath) ==
    /\ Event
    /\ fsPath \in Range(openFiles)
    /\ Commit(onDidCloseTextDocument(Cur, fsPath), "close", fsPath, NoScan)
    /\ closed' = closed \cup {fsPath}

Query(fsPath) ==
    /\ Event
    /\ fsPath \in Range(openFiles)
    /\ Commit(getOrScanFileUri(Cur, fsPath), "query", fsPath, NoScan)
    /\ UNCHANGED closed

CodeLens(fsPath) ==
    /\ Event
    /\ fsPath \in Range(openFiles)
    /\ Commit(onCodeLens(Cur, fsPath), "codeLens", fsPath, NoScan)
    /\ UNCHANGED closed

Completion ==
    /\ Event
    /\ Commit(onCompletion(Cur), "completion", <<>>, NoScan)
    /\ UNCHANGED closed

AddWorkspace(fsPath) ==
    /\ Event
    /\ Commit(addWorkspaceUri(Cur, fsPath), "addWorkspace", fsPath, NoScan)
    /\ UNCHANGED closed

RemoveWorkspace(fsPath) ==
    /\ Event
    /\ fsPath \in workspaces
    /\ Commit(removeWorkspaceUri(Cur, fsPath), "removeWorkspace", fsPath, NoScan)
    /\ UNCHANGED closed

\* readFile calls back with data: onFile, then whatever awaited the scan, then
\* (for the last scan of a walk) the rescan of the open files
ReadDone(scan, data) ==
    /\ scan \in DOMAIN pending
    /\ data \in DiskTexts(scan.fsPath)
    /\ Commit(afterWalk(deliver([Cur EXCEPT !.pending = BagDel(@, scan)], scan, data), scan.walk),
              "readDone", scan.fsPath, [scan |-> scan, data |-> data])
    /\ UNCHANGED <<closed, events>>

ReaddirDone(w, dir, err) ==
    /\ w \in DOMAIN walks
    /\ dir \in walks[w].dirs
    /\ Commit(readdirDone(Cur, w, dir, err), "readdirDone", dir, NoScan)
    /\ UNCHANGED <<closed, events>>

Next ==
    \/ \E fsPath \in EditorPaths, contentChanges \in {<<>>} \cup {<<t>> : t \in EditTexts} :
           Change(fsPath, contentChanges)
    \/ \E fsPath \in EditorPaths : Open(fsPath)
    \/ \E fsPath \in EditorPaths : Save(fsPath)
    \/ \E fsPath \in EditorPaths : Close(fsPath)
    \/ \E fsPath \in EditorPaths : Query(fsPath)
    \/ \E fsPath \in EditorPaths : CodeLens(fsPath)
    \/ Completion
    \/ \E fsPath \in Roots : AddWorkspace(fsPath)
    \/ \E fsPath \in Roots : RemoveWorkspace(fsPath)
    \/ \E scan \in DOMAIN pending, data \in AllDiskTexts : ReadDone(scan, data)
    \/ \E w \in DOMAIN walks, dir \in Dirs, err \in BOOLEAN : ReaddirDone(w, dir, err)

Spec == Init /\ [][Next]_vars

(***************************************************************************)
(* The requests.  A second state machine: the editor has opened one or two *)
(* files, their reads have completed, and it sends requests at positions   *)
(* of those files.  The texts on disk are g1 or g3 for /a/f and g2, g3 or  *)
(* g4 for /b.                                                              *)
(***************************************************************************)
\* the number of requests the editor sends in a run
MaxRequests == 1

\* the positions the editor sends: lines 0..MaxLine, characters 0..MaxCharacter
MaxLine == 5
MaxCharacter == 45

Positions == {Position(l, c) : l \in 0..MaxLine, c \in 0..MaxCharacter}

NewName == <<"N">>

QueryTexts(fsPath) ==
    IF fsPath = FileAF THEN {Text(FALSE, "g1"), Text(FALSE, "g3")}
    ELSE {Text(FALSE, "g2"), Text(FALSE, "g3"), Text(FALSE, "g4")}

\* the server after onInitialize without workspace folders
Started ==
    [workspaces |-> {}, openFiles |-> <<>>, fileContents |-> Empty, files |-> Empty,
     extendsInFiles |-> Empty, entitiesInScenes |-> Empty, templatesInFiles |-> Empty,
     usagesInvalid |-> TRUE, usagesMap |-> Empty, completion |-> <<>>,
     completionCacheInvalid |-> TRUE, completionCache |-> <<>>, diagnostics |-> Empty,
     pending |-> Empty, walks |-> Empty, walkCount |-> 0, produced |-> Empty,
     sent |-> {}, purged |-> {}, rescans |-> {}, ret |-> NoRet]

\* onDidOpenTextDocument(fsPath) (or, for an open file, onDidSaveTextDocument),
\* then the callback of the read it started, with data
Opened(s, fsPath, data) ==
    deliver(purgeFile([s EXCEPT !.openFiles = SetAdd(@, fsPath)], fsPath),
            Scan(fsPath, NoWorkspace, TRUE, FALSE, 0, "none"), data)

\* the server after the editor opened first, then perhaps the other file,
\* then perhaps saved first
QueryInit(first, d1, other, d2, saved) ==
    \E s1 \in {Opened(Started, first, d1)} :
    \E s2 \in {IF other THEN Opened(s1, CHOOSE f \in EditorPaths : f # first, d2) ELSE s1} :
    \E s \in {IF saved THEN Opened(s2, first, d1) ELSE s2} :
    /\ workspaces = s.workspaces
    /\ openFiles = s.openFiles
    /\ fileContents = s.fileContents
    /\ files = s.files
    /\ extendsInFiles = s.extendsInFiles
    /\ entitiesInScenes = s.entitiesInScenes
    /\ templatesInFiles = s.templatesInFiles
    /\ usagesInvalid = s.usagesInvalid
    /\ usagesMap = s.usagesMap
    /\ completion = s.completion
    /\ completionCacheInvalid = s.completionCacheInvalid
    /\ completionCache = s.completionCache
    /\ diagnostics = s.diagnostics
    /\ pending = s.pending
    /\ walks = s.walks
    /\ walkCount = s.walkCount
    /\ produced = s.produced
    /\ closed = {}
    /\ events = 0
    /\ last = [op |-> "init", arg |-> <<>>, scan |-> NoScan, sent |-> {},
               purged |-> {}, rescans |-> {}, ret |-> NoRet, prior |-> {}]

QInit ==
    \E first \in EditorPaths, other \in BOOLEAN, saved \in BOOLEAN :
        \E d1 \in QueryTexts(first),
           d2 \in QueryTexts(CHOOSE f \in EditorPaths : f # first) :
            QueryInit(first, d1, other, d2, saved)

Request == /\ events < MaxRequests
           /\ events' = events + 1
           /\ UNCHANGED closed

\* connection.onDefinition 134-146, for a file the index holds
DefinitionReply(res) ==
    IF "error" \in DOMAIN res \/ "res" \notin DOMAIN res \/ Len(res.res) = 0 THEN Null
    ELSE [i \in DOMAIN res.res |->
             [uri |-> res.res[i].filePath, range |-> toRange(res.res[i].location)]]

DefinitionRequest ==
    /\ Request
    /\ \E fsPath \in EditorPaths, position \in Positions :
           /\ Has(files, fsPath) /\ files[fsPath] # Null
           /\ Commit(Return(Cur, [param |-> getParamAt(files[fsPath], position, 0, Null),
                                  result |-> onDefinition(Cur, files[fsPath], position, FALSE),
                                  reply |-> DefinitionReply(
                                      onDefinition(Cur, files[fsPath], position, FALSE))]),
                     "definition", fsPath, [position |-> position])

\* connection.onHover 148-163: onDefinition with onlyExtends
HoverRequest ==
    /\ Request
    /\ \E fsPath \in EditorPaths, position \in Positions :
           /\ Has(files, fsPath) /\ files[fsPath] # Null
           /\ Commit(Return(Cur, [result |-> onDefinition(Cur, files[fsPath], position, TRUE)]),
                     "hover", fsPath, [position |-> position])

\* connection.onReferences 167-180
ReferencesReply(res) ==
    IF Len(res) = 0 THEN Null
    ELSE [i \in DOMAIN res |-> [uri |-> res[i].filePath, range |-> toRange(res[i].location)]]

ReferencesRequest ==
    /\ Request
    /\ \E fsPath \in EditorPaths, position \in Positions :
           /\ Has(files, fsPath) /\ files[fsPath] # Null
           /\ Commit(Return(Cur, [result |-> findAllReferencesAt(Cur, fsPath, files[fsPath],
                                                                 position),
                                  reply |-> ReferencesReply(
                                      findAllReferencesAt(Cur, fsPath, files[fsPath],
                                                          position))]),
                     "references", fsPath, [position |-> position])

\* connection.onRenameRequest
RenameRequest ==
    /\ Request
    /\ \E fsPath \in EditorPaths, position \in Positions :
           /\ Has(files, fsPath) /\ files[fsPath] # Null
           /\ Commit(Return(Cur, onRenameRequest(Cur, fsPath, files[fsPath], position, NewName)),
                     "rename", fsPath, [position |-> position])

\* cleanupBlkParam 389: param.value.length is a TypeError for a param whose
\* value was deleted by an earlier cleanup or is null (a synthetic param)
HasValue(param) == "value" \in DOMAIN param /\ param.value # Null

\* cleanupBlkBlock 381-385 on a document: the child blocks first, then the params
RECURSIVE cleanupThrows(_)
cleanupThrows(blk) ==
    \/ \E i \in DOMAIN blk.blocks : cleanupThrows(blk.blocks[i])
    \/ \E i \in DOMAIN blk.params : ~HasValue(blk.params[i])

TypeError == [threw |-> "TypeError"]
Completed == [threw |-> "nothing"]

\* processFile(fsPath, doc) for a document doc that processFile has
\* normalized before (the object files[fsPath] holds): cleanupBlkBlock (403)
\* throws before anything is written, or the call runs as for a parsed tree
processFileAgain(s, fsPath, doc) ==
    IF cleanupThrows(doc) THEN Return(s, TypeError)
    ELSE Return([processFile(s, fsPath, doc) EXCEPT !.files[fsPath] = Normalize(doc)],
                Completed)

\* processFile is run a second time on the document of fsPath
Renormalize ==
    /\ Request
    /\ \E fsPath \in EditorPaths :
           /\ Has(files, fsPath) /\ files[fsPath] # Null
           /\ Commit(processFileAgain(Cur, fsPath, files[fsPath]), "processFile", fsPath, NoScan)

\* onDidSaveTextDocument of an open file
SaveNotification ==
    /\ Request
    /\ \E fsPath \in Range(openFiles) :
           Commit(onDidSaveTextDocument(Cur, fsPath), "save", fsPath, NoScan)

\* the callback of the read a save started
QueryReadDone ==
    \E scan \in DOMAIN pending, data \in QueryTexts(FileAF) \cup QueryTexts(FileB) :
        /\ data \in QueryTexts(scan.fsPath)
        /\ Commit(afterWalk(deliver([Cur EXCEPT !.pending = BagDel(@, scan)], scan, data),
                            scan.walk),
                  "readDone", scan.fsPath, [scan |-> scan, data |-> data])
        /\ UNCHANGED <<closed, events>>

QNext ==
    \/ DefinitionRequest
    \/ HoverRequest
    \/ ReferencesRequest
    \/ RenameRequest
    \/ Renormalize
    \/ SaveNotification
    \/ QueryReadDone

QuerySpec == QInit /\ [][QNext]_vars

(***************************************************************************)
(* The session.  A third state machine: the editor has opened one or two   *)
(* files, their reads have completed with what the disk holds, and the     *)
(* editor goes on with notifications and requests for them.  No workspace  *)
(* folder is registered.                                                   *)
(***************************************************************************)
SessionInit ==
    \E first \in EditorPaths, other \in BOOLEAN :
        \E d1 \in DiskTexts(first),
           d2 \in DiskTexts(CHOOSE f \in EditorPaths : f # first) :
            QueryInit(first, d1, other, d2, FALSE)

SessionNext ==
    \/ \E fsPath \in EditorPaths, contentChanges \in {<<>>} \cup {<<t>> : t \in EditTexts} :
           Change(fsPath, contentChanges)
    \/ \E fsPath \in EditorPaths : Open(fsPath)
    \/ \E fsPath \in EditorPaths : Save(fsPath)
    \/ \E fsPath \in EditorPaths : Close(fsPath)
    \/ \E fsPath \in EditorPaths : Query(fsPath)
    \/ \E fsPath \in EditorPaths : CodeLens(fsPath)
    \/ Completion
    \/ \E scan \in DOMAIN pending, data \in AllDiskTexts : ReadDone(scan, data)

SessionSpec == SessionInit /\ [][SessionNext]_vars

(***************************************************************************)
(* Include paths.  A fourth state machine: the server starts with or       *)
(* without its workspace folders, the walks index what they find, the      *)
(* editor opens and closes /b, whose text is g5, and asks for the          *)
(* definition at the start of a line of it.                                *)
(***************************************************************************)
\* String.prototype.indexOf(sub) >= 0
Contains(str, sub) ==
    \E i \in 0..(Len(str) - Len(sub)) : SubSeq(str, i + 1, i + Len(sub)) = sub

\* path.isAbsolute (posix)
isAbsolute(path) == Len(path) > 0 /\ path[1] = "/"

\* path.resolve(dir, path) for a relative path without . and .. segments
pathResolve(dir, path) == IF dir = <<"/">> THEN dir \o path ELSE dir \o <<"/">> \o path

\* path.dirname of an absolute path
dirname(fsPath) ==
    LET i == CHOOSE k \in DOMAIN fsPath :
                 fsPath[k] = "/" /\ \A j \in (k + 1)..Len(fsPath) : fsPath[j] # "/"
    IN  IF i = 1 THEN <<"/">> ELSE SubSeq(fsPath, 1, i - 1)

\* fs.existsSync: the directories and files of the file system
existsSync(path) == path \in Dirs \cup Paths \cup {FileAH, <<"/">>}

\* findFile 32-36: the first folder under which path exists
UnderFolder(path, folders) ==
    SelectSeq([i \in DOMAIN folders |-> pathResolve(folders[i], path)], existsSync)

IsBareName(path) == ~Contains(path, <<"/">>) /\ ~Contains(path, <<"\\">>)

\* findFile 28-45, for a path that is neither empty nor absolute
findRelative(path, cwd, folders, relativePath, openPaths) ==
    IF (StartsWith(path, <<".">>) /\ ~StartsWith(path, <<".", ".">>))
           \/ existsSync(pathResolve(cwd, path))
    THEN <<pathResolve(cwd, path)>>
    ELSE IF Len(UnderFolder(path, folders)) > 0
    THEN <<UnderFolder(path, folders)[1]>>
    ELSE IF ~relativePath /\ IsBareName(path)
    THEN <<path>>
    ELSE SelectSeq(openPaths, LAMBDA openPath : Contains(openPath, path))

\* findFile (openPaths is its parameter openFiles)
findFile(path, cwd, folders, relativePath, openPaths) ==
    IF Len(Trim(path)) = 0 \/ isAbsolute(Trim(path))
    THEN <<Trim(path)>>
    ELSE findRelative(Trim(path), cwd, folders, relativePath, openPaths)

\* workspaces.values(), files.keys()
Folders(s) == SelectSeq(<<RootA, RootB>>, LAMBDA root : root \in s.workspaces)
FileKeys(s) == SelectSeq(FileOrder, LAMBDA f : Has(s.files, f))

\* the call of findFile whose result findWSFile returns: its path, its mode
\* and its result
FindCall(s, path, cwd, relativePath) ==
    [path |-> path, relativePath |-> relativePath,
     res |-> findFile(path, cwd, Folders(s), relativePath, FileKeys(s))]

\* path.replace(/\//g, "\\").indexOf("\\") + 1, 0 when there is none
SeparatorAt(path) ==
    IF \E i \in DOMAIN path : path[i] \in {"/", "\\"}
    THEN CHOOSE i \in DOMAIN path :
             path[i] \in {"/", "\\"} /\ \A j \in 1..(i - 1) : path[j] \notin {"/", "\\"}
    ELSE 0

\* findWSFile 757-764, for path without its # or %
findStripped(s, path, cwd, relativePath) ==
    IF /\ Len(FindCall(s, path, cwd, relativePath).res) = 0
       /\ relativePath
       /\ SeparatorAt(path) > 0
    THEN FindCall(s, SubSeq(path, SeparatorAt(path) + 1, Len(path)), cwd, relativePath)
    ELSE FindCall(s, path, cwd, relativePath)

\* findWSFile, with the call that made its result
findWSFile(s, path, cwd) ==
    IF StartsWith(path, <<"#">>) \/ StartsWith(path, <<"%">>)
    THEN findStripped(s, Tail(path), cwd, TRUE)
    ELSE findStripped(s, path, cwd, FALSE)

\* BlkLocation.create()
NoLocation == BlkLocation(BlkPosition(1, 1, 0), BlkPosition(1, 1, 0))

\* onDefinition 685-693: import:t=... at depth 0
IsImport(param) ==
    /\ param # Null /\ param.depth = 0 /\ param.res # Null
    /\ param.res._name = importField /\ param.res._type = TypeT
    /\ Len(param.res._value) > 0

ImportResult(inc, call) ==
    [include |-> inc, call |-> call,
     res |-> [i \in DOMAIN call.res |->
                 [name |-> inc, filePath |-> call.res[i], location |-> NoLocation]]]

\* onDefinition(uri, blkFile, position) with the paths of an import
onDefinitionOf(s, fsPath, blkFile, param, position) ==
    IF IsImport(param)
    THEN ImportResult(removeQuotes(param.res._value),
                      findWSFile(s, removeQuotes(param.res._value), dirname(fsPath)))
    ELSE onDefinition(s, blkFile, position, FALSE)

IncludePositions == {Position(l, 0) : l \in 0..3}

\* connection.onDefinition 134-146, for a file the index holds
IncludeRequest(fsPath, position) ==
    /\ Event
    /\ Has(files, fsPath) /\ files[fsPath] # Null
    /\ Commit(Return(Cur, [result |-> onDefinitionOf(Cur, fsPath, files[fsPath],
                                          getParamAt(files[fsPath], position, 0, Null),
                                          position)]),
              "include", fsPath, [position |-> position])
    /\ UNCHANGED closed

\* what a read of fsPath can deliver in these runs
IncludeTexts(fsPath) == IF fsPath = FileB THEN {Text(FALSE, "g5")} ELSE DiskTexts(fsPath)

IncludeReadDone(scan, data) ==
    /\ scan \in DOMAIN pending
    /\ data \in IncludeTexts(scan.fsPath)
    /\ Commit(afterWalk(deliver([Cur EXCEPT !.pending = BagDel(@, scan)], scan, data), scan.walk),
              "readDone", scan.fsPath, [scan |-> scan, data |-> data])
    /\ UNCHANGED <<closed, events>>

IncludeNext ==
    \/ Open(FileB)
    \/ Close(FileB)
    \/ \E position \in IncludePositions : IncludeRequest(FileB, position)
    \/ \E scan \in DOMAIN pending, data \in AllDiskTexts \cup {Text(FALSE, "g5")} :
           IncludeReadDone(scan, data)
    \/ \E w \in DOMAIN walks, dir \in Dirs, err \in BOOLEAN : ReaddirDone(w, dir, err)

IncludeSpec == Init /\ [][IncludeNext]_vars

(***************************************************************************)
(* The code lens.  One more state machine: the editor has opened one or   *)
(* two files holding the texts of the requests (g1..g4), saves them and   *)
(* asks for the code lenses of an open file.                               *)
(***************************************************************************)
\* connection.onCodeLens for an open file
CodeLensRequest ==
    /\ Request
    /\ \E fsPath \in Range(openFiles) :
           Commit(onCodeLens(Cur, fsPath), "codeLens", fsPath, NoScan)

LensNext ==
    \/ CodeLensRequest
    \/ SaveNotification
    \/ QueryReadDone

LensSpec == QInit /\ [][LensNext]_vars

(***************************************************************************)
(* The walk to its end.  A fifth state machine: the workspace folders are  *)
(* walked while the editor opens its files.  statSync throws for           *)
(* an entry it cannot inspect (removed since readdir listed it, a link     *)
(* without a target): the exception leaves the callback of readdir, the    *)
(* entries after it are not looked at and done is never called, so the     *)
(* promise of that directory, and of every walk that awaits it, stays      *)
(* pending.  Every callback that is due is eventually made (the runtime    *)
(* runs each completed read).                                              *)
(***************************************************************************)
\* stands in walks[w].dirs for a directory whose callback threw
Thrown == <<"!">>

\* walk 6-19 when statSync throws at entry number fail of the list
readdirThrows(s, w, dir, fail) ==
    walkEntries([s EXCEPT !.walks[w].dirs = (@ \ {dir}) \cup {Thrown}], w,
                SubSeq(DirEntries(dir), 1, fail - 1))

\* the callback of readdir(dir) in walk w; fail: the entry statSync throws
\* at, 0 when it throws at none
WalkReaddirDone(w, dir, err, fail) ==
    /\ w \in DOMAIN walks
    /\ dir \in walks[w].dirs
    /\ fail \in 0..(IF err THEN 0 ELSE Len(DirEntries(dir)))
    /\ Commit(IF fail = 0 THEN readdirDone(Cur, w, dir, err)
              ELSE readdirThrows(Cur, w, dir, fail),
              "readdirDone", dir, [fail |-> fail])
    /\ UNCHANGED <<closed, events>>

WalkReads == \E scan \in DOMAIN pending, data \in AllDiskTexts : ReadDone(scan, data)

WalkReaddirs ==
    \E w \in DOMAIN walks, dir \in Dirs, err \in BOOLEAN, fail \in 0..3 :
        WalkReaddirDone(w, dir, err, fail)

WalkNext ==
    \/ \E fsPath \in EditorPaths : Open(fsPath)
    \/ WalkReads
    \/ WalkReaddirs

WalkSpec == Init /\ [][WalkNext]_vars /\ WF_vars(WalkReads) /\ WF_vars(WalkReaddirs)

(***************************************************************************)
(* The properties                                                          *)
(***************************************************************************)

\* C1: a stale scan never overwrites a newer edit.  Once an edit with
\* parseable content has been indexed for a path, the callback of a read that
\* was started before that edit does not set files[path].  (The code does
\* set it: this property is violated.)
C1_StaleScanNeverOverwritesEdit ==
    [][(last'.op = "readDone" /\ last'.scan.scan.preEdit)
           => Lookup(files', last'.arg) = Lookup(files, last'.arg)]_vars

\* C2: immediately after purge(path) none of fileContents, files, the three
\* per-file maps and completion has an entry for path and both flags are
\* true; after open, save and close, which purge one path and then only
\* start a read, the entries of every other path are unchanged.
C2_PurgeCompleteness ==
    [][\A p \in last'.purged :
           /\ ~Has(fileContents', p)
           /\ ~Has(files', p)
           /\ Derived(Cur', p) = NoDerived
           /\ usagesInvalid' /\ completionCacheInvalid'
           /\ last'.op \in {"open", "save", "close"}
                  => \A q \in Paths \ {p} :
                         /\ Lookup(fileContents', q) = Lookup(fileContents, q)
                         /\ Lookup(files', q) = Lookup(files, q)
                         /\ Derived(Cur', q) = Derived(Cur, q)]_vars

\* a path whose scanned, parsed entry has just been purged by open, save or
\* close while another path keeps its document
C2_Witness ==
    /\ last.op \in {"open", "save", "close"}
    /\ last.arg \in last.purged
    /\ \E e \in last.prior : e.result # Null /\ e.derived # NoDerived
    /\ \E q \in Paths \ {last.arg} : Has(files, q) /\ Derived(Cur, q) # NoDerived

\* C3: round trip.  When a path was scanned with content c, then purged, and
\* the scan that getOrScanFile starts next reads the same content c, that
\* scan leaves in files[path] the document the first scan produced, and the
\* same three per-file maps and completion list.
C3_RoundTrip ==
    [][(/\ last'.op = "readDone"
        /\ last'.scan.scan.workspaceFsPath = NoWorkspace
        /\ ~last'.scan.scan.lazy
        /\ \E e \in last'.prior : e.purged /\ e.text = last'.scan.data)
           => \A e \in last'.prior :
                  /\ Lookup(files', last'.arg) = {e.result}
                  /\ Derived(Cur', last'.arg) = e.derived]_vars

\* the second scan of a round trip has delivered a document with entries
C3_Witness ==
    /\ last.op = "readDone"
    /\ last.scan.scan.workspaceFsPath = NoWorkspace
    /\ ~last.scan.scan.lazy
    /\ \E e \in last.prior :
           /\ e.purged /\ e.text = last.scan.data
           /\ e.result # Null /\ e.derived # NoDerived
           /\ Lookup(files, last.arg) = {e.result}

\* C4: the rescan of open files that follows addWorkspaceUri(root) starts
\* only when every scan and every directory listing of the walk of root has
\* completed: the step that runs it completes the last of them, and no scan
\* of that walk is in flight afterwards.
C4_RescanAfterWalk ==
    [][\A w \in last'.rescans :
           /\ \A scan \in DOMAIN pending :
                  scan.walk = w => /\ last'.op = "readDone"
                                   /\ scan = last'.scan.scan
                                   /\ pending[scan] = 1
           /\ \A dir \in walks[w].dirs : last'.op = "readdirDone" /\ dir = last'.arg
           /\ \A scan \in DOMAIN pending' : scan.walk # w
           /\ w \notin DOMAIN walks']_vars

\* a walk whose last file scan has completed, followed by the rescan of an
\* open file
C4_Witness ==
    /\ last.op = "readDone"
    /\ last.scan.scan.walk \in last.rescans
    /\ openFiles # <<>>
    /\ \E scan \in DOMAIN pending : scan.fsPath \in Range(openFiles) /\ scan.diagnostic

\* C5: when removeWorkspaceUri removes the last root, then before the open
\* files are rescanned files, the three per-file maps and the completion
\* lists are all empty.  (The code clears files only: this property is
\* violated.)
C5_LastRootClearsIndex ==
    [][(last'.op = "removeWorkspace" /\ workspaces' = {})
           => LET t == removeWorkspaceFiles(Cur, last'.arg)
              IN  /\ t.files = Empty
                  /\ t.extendsInFiles = Empty
                  /\ t.entitiesInScenes = Empty
                  /\ t.templatesInFiles = Empty
                  /\ t.completion = <<>>]_vars

\* C6: when removeWorkspaceUri(root) leaves another root registered, the
\* purged paths are exactly the open files that have root as a prefix, and
\* every open file is scanned again.  (The code tests whether a remaining
\* root starts with the file's path: this property is violated.)
C6_RemovePurgesFilesUnderRoot ==
    [][(last'.op = "removeWorkspace" /\ workspaces' # {})
           => /\ last'.purged = {p \in Range(openFiles) : StartsWith(p, last'.arg)}
              /\ \A p \in Range(openFiles) :
                     \/ p \in last'.sent
                     \/ \E scan \in DOMAIN pending' :
                            /\ scan.fsPath = p /\ scan.diagnostic
                            /\ (scan \notin DOMAIN pending \/ pending'[scan] > pending[scan])]_vars

\* C7: after a close of a path under no registered root, once no scan and no
\* walk is outstanding the index has no entry for that path.  (The close
\* handler scans the path again: this property is violated.)
C7_ClosedFileLeavesIndex ==
    \A p \in closed :
        (/\ \A ws \in workspaces : ~StartsWith(p, ws)
         /\ pending = Empty
         /\ walks = Empty)
            => ~Has(files, p) /\ Derived(Cur, p) = NoDerived

\* C8 as stated: after a successful scan of path, files[path] is the new
\* document, the per-file entries of path are those derived from that
\* document alone, and both flags are true.  (A scan of a walk whose root has
\* been unregistered does not store the document: this property is violated.)
C8_SuccessfulScanStores ==
    [][(last'.op = "readDone" /\ last'.scan.data # ReadErr
            /\ ParseOk(Stripped(last'.scan.data)))
           => Lookup(afterOnFile(Cur, last'.scan.scan, last'.scan.data).files, last'.arg)
                  = {Document(parse(Stripped(last'.scan.data)))}]_vars

\* C8, amended: after a successful scan of path the per-file entries of path
\* are those derived from the new document alone (nothing of the previous
\* document survives) and both flags are true; files[path] is the new
\* document when the scan was not issued by a walk or the root of its walk is
\* still registered.  Scans of a buffer (an edit) and of data read from disk
\* alike.
C8_SuccessfulScanReplaces ==
    [][/\ (last'.op = "readDone" /\ last'.scan.data # ReadErr
               /\ ParseOk(Stripped(last'.scan.data)))
           => \A t \in {afterOnFile(Cur, last'.scan.scan, last'.scan.data)} :
                  /\ WorkspaceOk(Cur, last'.scan.scan)
                         => Lookup(t.files, last'.arg)
                                = {Document(parse(Stripped(last'.scan.data)))}
                  /\ Derived(t, last'.arg)
                         = Derived(processFile(EmptyIndex(Cur), last'.arg,
                                               parse(Stripped(last'.scan.data))), last'.arg)
                  /\ t.usagesInvalid /\ t.completionCacheInvalid
       /\ (last'.op = "change" /\ Has(fileContents', last'.arg)
               /\ ParseOk(Stripped(fileContents'[last'.arg])))
           => /\ Lookup(files', last'.arg)
                     = {Document(parse(Stripped(fileContents'[last'.arg])))}
              /\ Derived(Cur', last'.arg)
                     = Derived(processFile(EmptyIndex(Cur), last'.arg,
                                           parse(Stripped(fileContents'[last'.arg]))), last'.arg)
              /\ usagesInvalid' /\ completionCacheInvalid']_vars

\* an edit has replaced a document that had other per-file entries
C8_Witness ==
    /\ last.op = "change"
    /\ Has(fileContents, last.arg) /\ ParseOk(fileContents[last.arg])
    /\ Has(files, last.arg)
    /\ \E e \in last.prior :
           /\ e.result # Null /\ e.result # files[last.arg]
           /\ e.derived.entitiesInScene # {}
           /\ Derived(Cur, last.arg).entitiesInScene = {}

\* C9 as stated: on a parse failure every scan that is not lazy stores null
\* as files[path].  (A scan of a walk whose root has been unregistered stores
\* nothing: this property is violated.)
C9_FailedScanStoresNull ==
    [][(last'.op = "readDone" /\ last'.scan.data # ReadErr
            /\ ~ParseOk(Stripped(last'.scan.data)) /\ ~last'.scan.scan.lazy)
           => Lookup(afterOnFile(Cur, last'.scan.scan, last'.scan.data).files, last'.arg)
                  = {Null}]_vars

\* C9, amended: on a parse failure a scan that is not lazy stores null as
\* files[path] when it was not issued by a walk or the root of its walk is
\* still registered; a lazy scan (the one an edit issues) leaves files
\* exactly as it was, so the previous document stays there.
C9_ParseFailure ==
    [][/\ (last'.op = "readDone" /\ last'.scan.data # ReadErr
               /\ ~ParseOk(Stripped(last'.scan.data)))
           => \A t \in {afterOnFile(Cur, last'.scan.scan, last'.scan.data)} :
                  /\ (~last'.scan.scan.lazy /\ WorkspaceOk(Cur, last'.scan.scan))
                         => Lookup(t.files, last'.arg) = {Null}
                  /\ last'.scan.scan.lazy => t.files = files
       /\ (last'.op = "change" /\ Has(fileContents', last'.arg)
               /\ ~ParseOk(Stripped(fileContents'[last'.arg])))
           => files' = files]_vars

\* an edit that does not parse has left the previous good document in files
C9_Witness ==
    /\ last.op = "change"
    /\ Has(fileContents, last.arg) /\ ~ParseOk(fileContents[last.arg])
    /\ Has(files, last.arg) /\ files[last.arg] # Null

\* C10: getOrScanFile(path) returns the entry of files when there is one, a
\* cached null included, and then starts no scan and changes nothing; when
\* there is none it starts a scan, and a scan started without the diagnostic
\* flag sends no diagnostics.
C10_GetOrScan ==
    [][/\ last'.op = "query"
           => IF Has(files, last'.arg)
              THEN /\ last'.ret = files[last'.arg]
                   /\ Cur' = Cur
                   /\ last'.sent = {}
              ELSE IF Has(fileContents, last'.arg)
              THEN /\ last'.ret = ScanResult(fileContents[last'.arg],
                                             Stripped(fileContents[last'.arg]))
                   /\ last'.sent = {}
              ELSE /\ pending' = BagAdd(pending, Scan(last'.arg, NoWorkspace, FALSE, FALSE, 0, "query"))
                   /\ last'.ret = NoRet
       /\ (last'.op = "readDone" /\ ~last'.scan.scan.diagnostic)
           => afterOnFile(Cur, last'.scan.scan, last'.scan.data).sent = {}]_vars

\* a query has been answered with the cached null of a file that did not parse
C10_Witness ==
    /\ last.op = "query"
    /\ Has(files, last.arg) /\ files[last.arg] = Null
    /\ last.ret = Null

\* C11 as stated: when the usage map is up to date and only the files F1 and
\* F2 hold references to the name T (N1 and N2 of them, counting _extends
\* values and _template segments), usagesMap reports N1 + N2 for T.  (The
\* rebuild adds the count of equally named sibling blocks as well: this
\* property is violated.)
C11_UsagesAreReferences ==
    ~usagesInvalid
        => LET In(m, f, T) == IF Has(m, f) /\ T \in DOMAIN m[f] THEN m[f][T] ELSE 0
               N(f, T) == In(extendsInFiles, f, T) + In(entitiesInScenes, f, T)
           IN  \A F1 \in Paths : \A F2 \in Paths \ {F1} : \A T \in DOMAIN usagesMap :
                   (\A f \in Paths \ {F1, F2} : N(f, T) = 0)
                       => usagesMap[T] = N(F1, T) + N(F2, T)

\* C11, amended: when the usage map is up to date and only the files F1 and
\* F2 have an entry for the name T in their three per-file maps, usagesMap
\* reports for T the sum over F1 and F2 of the _extends references, the
\* _template references and the count of equally named sibling blocks, and a
\* name with no such entry is not in usagesMap.
C11_UsageAggregation ==
    ~usagesInvalid
        => LET In(m, f, T) == IF Has(m, f) /\ T \in DOMAIN m[f] THEN m[f][T] ELSE 0
               N(f, T) == In(extendsInFiles, f, T) + In(entitiesInScenes, f, T)
                              + In(templatesInFiles, f, T)
               Names == DOMAIN usagesMap \cup KeysOf(extendsInFiles)
                            \cup KeysOf(entitiesInScenes) \cup KeysOf(templatesInFiles)
           IN  \A F1 \in Paths : \A F2 \in Paths \ {F1} : \A T \in Names :
                   (\A f \in Paths \ {F1, F2} : N(f, T) = 0)
                       => /\ T \in DOMAIN usagesMap
                          /\ usagesMap[T] = N(F1, T) + N(F2, T)

\* the usage map has been rebuilt while exactly two files refer to a name
C11_Witness ==
    /\ ~usagesInvalid
    /\ \E F1 \in Paths : \E F2 \in Paths \ {F1} : \E T \in DOMAIN usagesMap :
           /\ Has(extendsInFiles, F1) /\ T \in DOMAIN extendsInFiles[F1]
           /\ Has(extendsInFiles, F2) /\ T \in DOMAIN extendsInFiles[F2]
           /\ \A f \in Paths \ {F1, F2} : ~Has(extendsInFiles, f) /\ ~Has(entitiesInScenes, f)
           /\ usagesMap[T] > extendsInFiles[F1][T] + extendsInFiles[F2][T]

\* C12: a scan of path p changes no entry of another path q.  When a read of
\* p calls back (with text that parses, text that does not, or an error),
\* files[q], fileContents[q], the three per-file maps at q and the completion
\* list of q are after onFile what they were before; they are still so at the
\* end of the step unless the step went on to rescan the open files.  The
\* scan of an edited buffer, which runs inside didChange, leaves q alone too.
C12_FailureIsolation ==
    [][LET Entry(s, q) == <<Lookup(s.files, q), Lookup(s.fileContents, q), Derived(s, q)>>
       IN  /\ last'.op = "readDone"
                  => \A t \in {afterOnFile(Cur, last'.scan.scan, last'.scan.data)} :
                         \A q \in Paths \ {last'.arg} :
                             /\ Entry(t, q) = Entry(Cur, q)
                             /\ last'.rescans = {} => Entry(Cur', q) = Entry(Cur, q)
           /\ last'.op = "change"
                  => \A q \in Paths \ {last'.arg} : Entry(Cur', q) = Entry(Cur, q)]_vars

\* a read of one file has delivered text that does not parse while another
\* file is indexed with a document and per-file entries
C12_Witness ==
    /\ last.op = "readDone"
    /\ last.scan.data # ReadErr
    /\ ~ParseOk(Stripped(last.scan.data))
    /\ Lookup(files, last.arg) = {Null}
    /\ \E q \in Paths \ {last.arg} :
           /\ Has(files, q) /\ files[q] # Null
           /\ Has(extendsInFiles, q) /\ OrdHas(completion, q)

\* C13: when the read of a file fails, the scan resolves to null, publishes
\* no diagnostics and leaves files, the three per-file maps and the
\* completion list of the path as they were: no null entry is recorded, so
\* that a getOrScanFile of a path that had no entry (and has no edited
\* buffer to parse instead) starts a read again.
\* Unless the step goes on to rescan the open files, this is the state the
\* step ends in, and a request that awaited the scan gets null.
C13_ReadFailure ==
    [][(last'.op = "readDone" /\ last'.scan.data = ReadErr)
           => /\ ScanResult(last'.scan.data, Stripped(last'.scan.data)) = Null
              /\ \A t \in {afterOnFile(Cur, last'.scan.scan, last'.scan.data)} :
                     /\ t.sent = {} /\ t.diagnostics = diagnostics
                     /\ Lookup(t.files, last'.arg) = Lookup(files, last'.arg)
                     /\ Derived(t, last'.arg) = Derived(Cur, last'.arg)
                     /\ (~Has(files, last'.arg) /\ ~Has(fileContents, last'.arg))
                            => getOrScanFile(t, last'.arg, FALSE, "query").pending
                                   = BagAdd(t.pending, Scan(last'.arg, NoWorkspace, FALSE,
                                                            FALSE, 0, "query"))
              /\ last'.rescans = {}
                     => /\ last'.sent = {} /\ diagnostics' = diagnostics
                        /\ Lookup(files', last'.arg) = Lookup(files, last'.arg)
                        /\ Derived(Cur', last'.arg) = Derived(Cur, last'.arg)
              /\ last'.scan.scan.cont = "query" => last'.ret = Null]_vars

\* the read that a request started has failed for a file with no entry in
\* files: the request got null and the file has no entry still
C13_Witness ==
    /\ last.op = "readDone"
    /\ last.scan.data = ReadErr
    /\ last.scan.scan.cont = "query"
    /\ last.ret = Null
    /\ ~Has(files, last.arg) /\ ~Has(fileContents, last.arg)
    /\ last.sent = {}

\* C14: normalization is idempotent.  processFile run on the document the
\* index holds (which processFile normalized when the file was scanned)
\* completes and leaves the document as it is.  (The second cleanup throws
\* a TypeError at the first param, whose value the first cleanup deleted:
\* this property is violated.)
C14_NormalizationIdempotent ==
    [][last'.op = "processFile"
           => /\ last'.ret = Completed
              /\ files'[last'.arg] = files[last'.arg]]_vars

\* C15: group flattening.  In every indexed document a top-level block with
\* a _group child has, for each param of the group and for each block nested
\* in the group, a param of that name (a and b for _group{a:i=1;b:i{}}), and
\* no _group child is reachable as a block: the lookup of a position never
\* answers with a param whose parent is a _group block.  (The _group child
\* stays in blocks and getParamAt enters it: this property is violated.)
C15_GroupFlattening ==
    [][last'.op = "definition"
           => /\ \A i \in DOMAIN files[last'.arg].blocks :
                     \A blk \in {files[last'.arg].blocks[i]} :
                         \A j \in DOMAIN blk.blocks :
                             blk.blocks[j].name = groupBlock
                                 => /\ \A k \in DOMAIN blk.blocks[j].params :
                                           \E n \in DOMAIN blk.params :
                                               /\ blk.params[n]._name = blk.blocks[j].params[k]._name
                                               /\ blk.params[n].value = Null
                                    /\ \A k \in DOMAIN blk.blocks[j].blocks :
                                           \E n \in DOMAIN blk.params :
                                               /\ blk.params[n]._name
                                                      = NameParts(blk.blocks[j].blocks[k].name)[1]
                                               /\ blk.params[n].value = Null
              /\ (last'.ret.param # Null /\ last'.ret.param.parent # Null)
                     => last'.ret.param.parent.name # groupBlock]_vars

C17_UndefinedReference ==
    [][/\ (last'.op = "readDone" /\ last'.scan.scan.diagnostic /\ Has(files', last'.arg)
               /\ files'[last'.arg] # Null)
           => \A i \in DOMAIN files'[last'.arg].blocks :
                  \A j \in DOMAIN files'[last'.arg].blocks[i].params :
                      \A param \in {files'[last'.arg].blocks[i].params[j]} :
                          (IsExtends(param) /\ getTemplates(Cur', removeQuotes(param._value)) = {})
                              => \E k \in DOMAIN diagnostics'[last'.arg] :
                                     diagnostics'[last'.arg][k]
                                         = Diag("Unknown parent template",
                                                removeQuotes(param._value), param.location,
                                                SeverityError)
       /\ last'.op \in {"definition", "hover"}
           => \A p \in {getParamAt(files[last'.arg], last'.scan.position, 0, Null)} :
                  (/\ p # Null /\ p.res # Null /\ p.depth = 1
                   /\ IsExtends(p.res)
                   /\ ~HasPlus(removeQuotes(p.res._value))
                   /\ getTemplates(Cur, removeQuotes(p.res._value)) = {})
                      => /\ "error" \in DOMAIN last'.ret.result
                         /\ last'.ret.result.res = <<>>
                         /\ last'.scan.position.character
                                >= p.res.location.end.column - 1 - Len(p.res._value)
                                => last'.ret.result.error
                                       = <<"#undefined template '">>
                                             \o removeQuotes(p.res._value) \o <<"'">>]_vars

\* a definition request on the value of an _extends param that names no
\* template; the file's diagnostics hold the finding for it
C17_Witness ==
    /\ last.op = "definition"
    /\ last.ret.param # Null
    /\ last.ret.param.res # Null
    /\ IsExtends(last.ret.param.res)
    /\ last.ret.param.res._value = <<Q, "B", "a", "r", Q>>
    /\ last.scan.position.character = last.ret.param.res.location.end.column - 3
    /\ "error" \in DOMAIN last.ret.result
    /\ last.ret.reply = Null
    /\ \E k \in DOMAIN diagnostics[last.arg] :
           /\ diagnostics[last.arg][k].message = "Unknown parent template"
           /\ diagnostics[last.arg][k].name = <<"B", "a", "r">>

\* the distance of the first character of segment i from the first character
\* of the first segment, in a value whose segments are joined by "+"
RECURSIVE SegmentStart(_, _)
SegmentStart(segs, i) ==
    IF i = 1 THEN 0 ELSE SegmentStart(segs, i - 1) + Len(segs[i - 1]) + 1

\* C18: resolution inside a concatenated _extends value.  For a definition or
\* hover request whose cursor is on a character of segment Si of the value
\* "S1+S2+...+Sn" of an _extends param (the first, a middle or the last
\* character of Si), onDefinition answers for the name Si: the templates named
\* Si under the name Si when there are some, else the error that names Si.
C18_SegmentResolution ==
    [][last'.op \in {"definition", "hover"}
           => \A p \in {getParamAt(files[last'.arg], last'.scan.position, 0, Null)} :
                  (/\ p # Null /\ p.res # Null /\ p.depth = 1
                   /\ IsExtends(p.res)
                   /\ HasPlus(removeQuotes(p.res._value)))
                      => \A segs \in {Split(removeQuotes(p.res._value), "+")} :
                             \A i \in DOMAIN segs :
                                 \A first \in {p.res.location.end.column - Len(p.res._value)
                                                   + SegmentStart(segs, i)} :
                                     (/\ last'.scan.position.character >= first
                                      /\ last'.scan.position.character < first + Len(segs[i]))
                                         => IF getTemplates(Cur, segs[i]) = {}
                                            THEN /\ last'.ret.result.res = <<>>
                                                 /\ last'.ret.result.error
                                                        = <<"#undefined template '">>
                                                              \o segs[i] \o <<"'">>
                                            ELSE /\ "error" \notin DOMAIN last'.ret.result
                                                 /\ last'.ret.result.name = segs[i]
                                                 /\ Len(last'.ret.result.res) > 0
                                                 /\ Range(last'.ret.result.res)
                                                        = getTemplates(Cur, segs[i])]_vars

\* a definition request on the only character of the middle segment C of
\* "Ab+C+Def", with a template C indexed from the other file, answered with
\* the declaration of C
C18_Witness ==
    /\ last.op = "definition"
    /\ last.ret.param # Null
    /\ last.ret.param.res # Null
    /\ last.ret.param.res._value = <<Q, "A", "b", "+", "C", "+", "D", "e", "f", Q>>
    /\ last.scan.position.character = last.ret.param.res.location.end.column - 6
    /\ "name" \in DOMAIN last.ret.result
    /\ last.ret.result.name = <<"C">>
    /\ Len(last.ret.result.res) = 1
    /\ Len(last.ret.reply) = 1

\* C19: self-extension.  When a file is scanned and validated, every
\* top-level block that has an _extends param whose value is the block's own
\* name gets the finding "Recursively dependency" for that name, with error
\* severity, at the location of the param.
C19_SelfExtension ==
    [][(last'.op = "readDone" /\ last'.scan.scan.diagnostic /\ Has(files', last'.arg)
            /\ files'[last'.arg] # Null)
           => \A i \in DOMAIN files'[last'.arg].blocks :
                  \A blk \in {files'[last'.arg].blocks[i]} :
                      \A j \in DOMAIN blk.params :
                          (IsExtends(blk.params[j])
                               /\ removeQuotes(blk.params[j]._value) = blk.name)
                              => \E k \in DOMAIN diagnostics'[last'.arg] :
                                     diagnostics'[last'.arg][k]
                                         = Diag("Recursively dependency", blk.name,
                                                blk.params[j].location, SeverityError)]_vars

\* a validated file with the block X{_extends:t="X"}; its diagnostics hold
\* the finding for X at the param, and no other finding names X
C19_Witness ==
    /\ last.op = "readDone"
    /\ last.scan.scan.diagnostic
    /\ Has(files, last.arg)
    /\ files[last.arg] # Null
    /\ \E i \in DOMAIN files[last.arg].blocks :
           /\ files[last.arg].blocks[i].name = <<"X">>
           /\ Len(files[last.arg].blocks[i].params) = 1
           /\ IsExtends(files[last.arg].blocks[i].params[1])
           /\ files[last.arg].blocks[i].params[1]._value = <<Q, "X", Q>>
           /\ \E k \in DOMAIN diagnostics[last.arg] :
                  /\ diagnostics[last.arg][k].message = "Recursively dependency"
                  /\ diagnostics[last.arg][k].name = <<"X">>
                  /\ diagnostics[last.arg][k].severity = SeverityError
                  /\ diagnostics[last.arg][k].range
                         = files[last.arg].blocks[i].params[1].location
           /\ \A k \in DOMAIN diagnostics[last.arg] :
                  diagnostics[last.arg][k].name = <<"X">>
                      => diagnostics[last.arg][k].message = "Recursively dependency"

\* C20: one edit per location.  The answer to a rename request that finds
\* something to rename holds no two edits with the same file and range; when
\* the cursor is on the first line of a template declaration and the only
\* location findAllReferences knows for its name is that declaration, the
\* answer is exactly one edit.
C20_OneEditPerLocation ==
    [][last'.op = "rename"
           => \A res \in {findAllReferencesAt(Cur, last'.arg, files[last'.arg],
                                              last'.scan.position)} :
                  Len(res) > 0
                      => /\ \A a \in DOMAIN last'.ret :
                                \A b \in DOMAIN last'.ret :
                                    (/\ a # b
                                     /\ last'.ret[a].uri = last'.ret[b].uri)
                                        => last'.ret[a].range # last'.ret[b].range
                         /\ \A i \in DOMAIN files[last'.arg].blocks :
                                \A blk \in {files[last'.arg].blocks[i]} :
                                    (/\ last'.scan.position.line = blk.location.start.line - 1
                                     /\ isPosInLocation(blk.location, last'.scan.position)
                                     /\ findAllReferences(Cur, blk.name)
                                            = << [name |-> blk.name, filePath |-> last'.arg,
                                                  location |-> blk.location] >>)
                                        => Len(last'.ret) = 1]_vars

\* C21: references at a block's first line.  For a references request whose
\* cursor is on the first line of a top-level block of the file: when
\* findAllReferences finds something for the block's name, the result is the
\* block's declaration followed by what findAllReferences found, also with
\* the cursor on a param of that line; when it finds nothing, the result is
\* what findAllTemplatesWithParam finds for the first param at the cursor for
\* which it finds something.  The reply holds one location per result.
C21_BlockNameSearchFirst ==
    [][last'.op = "references"
           => \A i \in DOMAIN files[last'.arg].blocks :
                  \A blk \in {files[last'.arg].blocks[i]} :
                      (/\ last'.scan.position.line = blk.location.start.line - 1
                       /\ isPosInLocation(blk.location, last'.scan.position)
                       /\ \A h \in 1..(i - 1) :
                              ~isPosInLocation(files[last'.arg].blocks[h].location,
                                               last'.scan.position))
                          => \A refs \in {findAllReferences(Cur, blk.name)} :
                                 /\ Len(refs) > 0
                                        => /\ last'.ret.result
                                                  = << [name |-> blk.name,
                                                        filePath |-> last'.arg,
                                                        location |-> blk.location] >> \o refs
                                           /\ Len(last'.ret.reply) = Len(refs) + 1
                                           /\ last'.ret.reply[1]
                                                  = [uri |-> last'.arg,
                                                     range |-> toRange(blk.location)]
                                 /\ Len(refs) = 0
                                        => \A j \in DOMAIN blk.params :
                                               (/\ isPosInLocation(blk.params[j].location,
                                                                   last'.scan.position)
                                                /\ Len(findAllTemplatesWithParam(Cur,
                                                       blk.params[j]._name,
                                                       blk.params[j]._type)) > 0
                                                /\ \A k \in 1..(j - 1) :
                                                       ~isPosInLocation(blk.params[k].location,
                                                                        last'.scan.position))
                                                   => last'.ret.result
                                                          = findAllTemplatesWithParam(Cur,
                                                                blk.params[j]._name,
                                                                blk.params[j]._type)]_vars

\* a references request with the cursor on the param x:i=1 of the first line
\* of A{_extends:t="B";x:i=1}: the result starts with the declaration of A
\* and goes on with the references to A, none of them the param
C21_Witness ==
    /\ last.op = "references"
    /\ last.scan.position = Position(0, 19)
    /\ Has(files, last.arg)
    /\ files[last.arg] # Null
    /\ files[last.arg].blocks[1].name = <<"A">>
    /\ isPosInLocation(files[last.arg].blocks[1].params[2].location, last.scan.position)
    /\ Len(last.ret.result) > 2
    /\ last.ret.result[1] = [name |-> <<"A">>, filePath |-> last.arg,
                             location |-> files[last.arg].blocks[1].location]
    /\ \A k \in DOMAIN last.ret.result : last.ret.result[k].name = <<"A">>

\* the params of the top-level blocks of every indexed document that have
\* the name and the type of param, as results of a search
SameParams(param) ==
    UNION {UNION {{[name |-> param._name, filePath |-> f,
                    location |-> files[f].blocks[i].params[j].location,
                    indent |-> files[f].blocks[i].params[j].indent] :
                       j \in {k \in DOMAIN files[f].blocks[i].params :
                                 /\ files[f].blocks[i].params[k]._name = param._name
                                 /\ files[f].blocks[i].params[k]._type = param._type}} :
                  i \in DOMAIN files[f].blocks} :
           f \in {g \in DOMAIN files : files[g] # Null}}

\* C22 as claimed: for a references request whose cursor is on a param (the
\* one getParamAt finds, at any depth) and on no first line of a top-level
\* block, the result is every top-level param with the name and type of that
\* param, the param itself among them, and nothing else.
C22_SameParamAsUnderCursor ==
    [][last'.op = "references"
           => \A p \in {getParamAt(files[last'.arg], last'.scan.position, 0, Null)} :
                  (/\ p # Null
                   /\ p.res # Null
                   /\ \A i \in DOMAIN files[last'.arg].blocks :
                          last'.scan.position.line
                              # files[last'.arg].blocks[i].location.start.line - 1)
                      => /\ Range(last'.ret.result) = SameParams(p.res)
                         /\ \E k \in DOMAIN last'.ret.result :
                                /\ last'.ret.result[k].filePath = last'.arg
                                /\ last'.ret.result[k].location = p.res.location]_vars

\* C22: find all templates with the same parameter.  For a references request
\* whose cursor is inside a top-level block and not on its first line, the
\* param searched for is the first param of that top-level block, child
\* blocks counted as the params made of them, whose location holds the
\* cursor: the result is every param of a top-level block of an indexed
\* document with the name and the type of that param, each once, that param
\* among them, and nothing else.
C22_SameParamSearch ==
    [][last'.op = "references"
           => \A i \in DOMAIN files[last'.arg].blocks :
                  \A blk \in {files[last'.arg].blocks[i]} :
                      (/\ isPosInLocation(blk.location, last'.scan.position)
                       /\ last'.scan.position.line # blk.location.start.line - 1)
                          => \A j \in DOMAIN blk.params :
                                 (/\ isPosInLocation(blk.params[j].location,
                                                     last'.scan.position)
                                  /\ \A k \in 1..(j - 1) :
                                         ~isPosInLocation(blk.params[k].location,
                                                          last'.scan.position))
                                     => /\ Range(last'.ret.result) = SameParams(blk.params[j])
                                        /\ Len(last'.ret.result)
                                               = Cardinality(SameParams(blk.params[j]))
                                        /\ \E k \in DOMAIN last'.ret.result :
                                               /\ last'.ret.result[k].filePath = last'.arg
                                               /\ last'.ret.result[k].location
                                                      = blk.params[j].location
                                        /\ Len(last'.ret.reply) = Len(last'.ret.result)]_vars

\* a references request with the cursor on x:i=1 of the second line of D,
\* with x:i=1 of A indexed from the other file: the result is x:i=1 of A,
\* x:i=1 of D and x:i=3 of E, and not x:r=4 of E
C22_Witness ==
    /\ last.op = "references"
    /\ last.scan.position = Position(1, 2)
    /\ Has(files, last.arg)
    /\ files[last.arg] # Null
    /\ files[last.arg].blocks[1].name = <<"D">>
    /\ Len(last.ret.result) = 3
    /\ \A k \in DOMAIN last.ret.result :
           /\ last.ret.result[k].name = <<"x">>
           /\ last.ret.result[k].location # files[last.arg].blocks[2].params[2].location
    /\ \E k \in DOMAIN last.ret.result : last.ret.result[k].filePath # last.arg
    /\ \E k \in DOMAIN last.ret.result :
           last.ret.result[k].location = files[last.arg].blocks[1].params[1].location

\* what the per-file maps of the paths fs hold for the name T, added up
RECURSIVE PerFileTotal(_, _)
PerFileTotal(fs, T) ==
    IF fs = {} THEN 0
    ELSE LET f == CHOOSE g \in fs : TRUE
             In(m) == IF Has(m, f) /\ T \in DOMAIN m[f] THEN m[f][T] ELSE 0
         IN  In(extendsInFiles) + In(entitiesInScenes) + In(templatesInFiles)
                 + PerFileTotal(fs \ {f}, T)

\* C23: the usage map is never stale.  In every reachable state in which
\* usagesInvalid is false, the keys of usagesMap are the names that occur in
\* the map of some path in extendsInFiles, entitiesInScenes or
\* templatesInFiles, and usagesMap[name] is the sum over all paths of what the
\* three maps of the path hold for the name.
C23_UsagesMapFresh ==
    ~usagesInvalid
        => /\ DOMAIN usagesMap
                  = KeysOf(extendsInFiles) \cup KeysOf(entitiesInScenes)
                        \cup KeysOf(templatesInFiles)
           /\ \A T \in DOMAIN usagesMap :
                  usagesMap[T]
                      = PerFileTotal(DOMAIN extendsInFiles \cup DOMAIN entitiesInScenes
                                         \cup DOMAIN templatesInFiles, T)

\* the usage map is up to date after a purge: a code lens request rebuilt it
\* from the maps of at least two paths, after an earlier step had purged a path
C23_Witness ==
    /\ ~usagesInvalid
    /\ last.op = "codeLens"
    /\ closed # {}
    /\ Cardinality(DOMAIN extendsInFiles \cup DOMAIN templatesInFiles) >= 2
    /\ \E T \in DOMAIN usagesMap : usagesMap[T] >= 2

Labels(items) == {items[i].label : i \in DOMAIN items}

\* the labels in the completion lists list of the paths in paths
ListedLabels(list, paths) ==
    UNION {Labels(list[i].value) : i \in {k \in DOMAIN list : list[k].key \in paths}}

\* C24: the completion cache is never stale.  After every step, when
\* completionCacheInvalid is false, completionCache holds one item for every
\* label of the per-file completion lists, no two items with the same label
\* and no other label.  A completion request returns the cache, up to date.
\* When the step before the request was an open, save or close, which purged
\* a path, every label of the list that path had is returned only if the list
\* of another path holds it.
C24_CompletionCacheFresh ==
    [][/\ ~completionCacheInvalid'
              => /\ Labels(completionCache') = ListedLabels(completion', Paths)
                 /\ \A a \in DOMAIN completionCache' :
                        \A b \in DOMAIN completionCache' :
                            a # b => completionCache'[a].label # completionCache'[b].label
       /\ last'.op = "completion"
              => /\ ~completionCacheInvalid'
                 /\ last'.ret = completionCache'
                 /\ last.op \in {"open", "save", "close"}
                        => \A e \in last.prior :
                               \A items \in e.derived.completion :
                                   \A l \in Labels(items) \cap Labels(last'.ret) :
                                       l \in ListedLabels(completion', Paths \ {last.arg})]_vars

\* a completion request answered right after the only indexed file was
\* closed: the file had a completion list with the label A, and the answer
\* holds none of its labels
C24_Witness ==
    /\ last.op = "completion"
    /\ ~completionCacheInvalid
    /\ last.ret = completionCache
    /\ \E p \in closed :
           /\ Has(produced, p)
           /\ produced[p].purged
           /\ \E items \in produced[p].derived.completion :
                  /\ <<"A">> \in Labels(items)
                  /\ Labels(items) \cap Labels(completionCache) = {}

\* what the index holds for the path p: nothing, after a purge
Unindexed(s, p) == ~Has(s.files, p) /\ Derived(s, p) = NoDerived

\* C25: purge before rescan.  Right after the open, save or close handler of
\* a path, files and the per-file maps hold no entry for the path and the
\* read of the rescan is pending.  While they hold none, a step gives the
\* path an entry only by storing the result of a scan of it (the callback of
\* a read of the path, or a scan of its edit buffer), and a query for the
\* path gets no document in its own step: it waits for a read.
C25_PurgeBeforeRescan ==
    [][/\ last'.op \in {"open", "save", "close"}
              => /\ Unindexed(Cur', last'.arg)
                 /\ ~Has(fileContents', last'.arg)
                 /\ \E scan \in DOMAIN pending' :
                        /\ scan.fsPath = last'.arg
                        /\ pending'[scan] > (IF scan \in DOMAIN pending THEN pending[scan] ELSE 0)
       /\ \A p \in Paths :
              (Unindexed(Cur, p) /\ ~Unindexed(Cur', p))
                  => \/ last'.op = "readDone" /\ last'.arg = p
                     \/ Has(fileContents', p) /\ (last'.arg = p \/ p \in last'.rescans)
       /\ (/\ last'.op \in {"query", "codeLens"}
           /\ Unindexed(Cur, last'.arg)
           /\ ~Has(fileContents, last'.arg))
              => /\ last'.ret = NoRet
                 /\ Unindexed(Cur', last'.arg)]_vars

\* a file with a document and entries has been saved: the index holds
\* nothing for it and the read of the rescan is pending
C25_Witness ==
    /\ last.op = "save"
    /\ \E e \in last.prior : e.result # Null /\ e.derived # NoDerived
    /\ Unindexed(Cur, last.arg)
    /\ \E scan \in DOMAIN pending : scan.fsPath = last.arg

\* the number of pending reads of the path p among the scans ss of the bag b
RECURSIVE PendingReads(_, _, _)
PendingReads(b, ss, p) ==
    IF ss = {} THEN 0
    ELSE LET x == CHOOSE y \in ss : TRUE
         IN  (IF x.fsPath = p THEN b[x] ELSE 0) + PendingReads(b, ss \ {x}, p)

\* C26: the edit buffer overrides the disk.  A scan of a path that starts
\* while fileContents has an entry for the path (in the change handler, after
\* the buffer was set; in a query or code lens request for a path that is not
\* in files) starts no read, and at the end of the handler's step the index
\* holds what the buffer gives: its document and completion list when it
\* parses; when it does not, null for a query's scan and the entry as it was
\* for the lazy scan of the change handler.
C26_BufferOverridesDisk ==
    [][/\ (last'.op = "change" /\ Has(fileContents', last'.arg))
              => \A txt \in {fileContents'[last'.arg]} :
                     /\ PendingReads(pending', DOMAIN pending', last'.arg)
                            = PendingReads(pending, DOMAIN pending, last'.arg)
                     /\ ParseOk(txt)
                            => /\ Lookup(files', last'.arg) = {Document(parse(txt))}
                               /\ \A items \in {Entries(parse(txt), Document(parse(txt))).completion} :
                                      OrdLookup(completion', last'.arg)
                                          = IF items = <<>> THEN {} ELSE {items}
                     /\ ~ParseOk(txt)
                            => Lookup(files', last'.arg) = Lookup(files, last'.arg)
       /\ (/\ last'.op \in {"query", "codeLens"}
           /\ ~Has(files, last'.arg)
           /\ Has(fileContents, last'.arg))
              => \A txt \in {fileContents[last'.arg]} :
                     /\ pending' = pending
                     /\ fileContents' = fileContents
                     /\ Lookup(files', last'.arg)
                            = {IF ParseOk(txt) THEN Document(parse(txt)) ELSE Null}]_vars

\* an edit of a file whose disk text gave the document of g1: at the end of
\* the change handler's step the file's document is that of the buffer g2,
\* and no read of the file is pending
C26_Witness ==
    /\ last.op = "change"
    /\ Has(fileContents, last.arg)
    /\ fileContents[last.arg] = Text(FALSE, "g2")
    /\ \E e \in last.prior : e.result = DocG1
    /\ Lookup(files, last.arg) = {DocG2}
    /\ PendingReads(pending, DOMAIN pending, last.arg) = 0
\* every child of blk has left its params on blk
FlattenedChildren(blk) ==
    \A j \in DOMAIN blk.blocks :
        \A child \in {blk.blocks[j]} :
            /\ child.name = groupBlock
                   => /\ \A k \in DOMAIN child.params :
                             \E n \in DOMAIN blk.params :
                                 /\ blk.params[n]._name = child.params[k]._name
                                 /\ blk.params[n]._type = child.params[k]._type
                                 /\ blk.params[n]._value = child.params[k]._value
                                 /\ blk.params[n].location = child.params[k].location
                      /\ \A k \in DOMAIN child.blocks :
                             \E n \in DOMAIN blk.params :
                                 /\ <<blk.params[n]._name, blk.params[n]._type>>
                                        = NameParts(child.blocks[k].name)
                                 /\ blk.params[n]._value = <<>>
                                 /\ blk.params[n].location = child.blocks[k].location
            /\ child.name # groupBlock
                   => \E n \in DOMAIN blk.params :
                          /\ <<blk.params[n]._name, blk.params[n]._type>> = NameParts(child.name)
                          /\ blk.params[n]._value = <<>>
                          /\ blk.params[n].location = child.location

\* and so has every child of every block below blk (the children of a _group
\* leave theirs on the parent of the group)
RECURSIVE FlattenedAtEveryDepth(_)
FlattenedAtEveryDepth(blk) ==
    /\ blk.name # groupBlock => FlattenedChildren(blk)
    /\ \A j \in DOMAIN blk.blocks : FlattenedAtEveryDepth(blk.blocks[j])

\* C27: flattening at every depth.  In every indexed document, every block of
\* the tree (top-level or nested) has, for each ordinary child block n:t, a
\* param of name n, type t and empty value at the child's location, and for
\* each _group child a param for each param of the group and for each block
\* nested in the group.  (processFile visits the children of the top-level
\* blocks only: in D{n:r{m:p{};_group{k:i=2}}} the block n:r gets neither
\* m:p nor k:i, and this property is violated.)
C27_FlatteningAtEveryDepth ==
    \A f \in DOMAIN files :
        files[f] # Null
            => \A i \in DOMAIN files[f].blocks : FlattenedAtEveryDepth(files[f].blocks[i])

\* the number of top-level blocks of doc that carry name
Carriers(doc, name) == Cardinality({i \in DOMAIN doc.blocks : doc.blocks[i].name = name})

\* C28: the counts of templatesInFile.  For every indexed document, the
\* templatesInFile map of its file holds, for every name other than entity
\* that two or more of its top-level blocks carry, the number of top-level
\* blocks that carry it, and holds no entry for entity nor for a name that
\* one top-level block carries.  (processFile adds one per pair i < j of
\* equally named blocks: 1 for two blocks, 3 for three.  This property is
\* violated.)
C28_TemplatesInFileCounts ==
    \A f \in DOMAIN files :
        files[f] # Null
            => \A name \in {files[f].blocks[i].name : i \in DOMAIN files[f].blocks} :
                   IF name # entityWithTemplateName /\ Carriers(files[f], name) >= 2
                   THEN /\ Has(templatesInFiles, f)
                        /\ Has(templatesInFiles[f], name)
                        /\ templatesInFiles[f][name] = Carriers(files[f], name)
                   ELSE Has(templatesInFiles, f) => ~Has(templatesInFiles[f], name)

\* the findings of ds with this message for name at location
Findings(ds, message, name, location) ==
    SelectSeq(ds, LAMBDA d : d.message = message /\ d.name = name /\ d.range = location)

\* C29: the parent of an _extends param.  When a file is scanned and
\* validated, for every _extends param of type t with a non-empty value on a
\* top-level block, with n the number of templates getTemplates returns for
\* the name it refers to: the diagnostics hold an "Unknown parent template"
\* finding for the name at the param exactly when n = 0, and it is an error;
\* they hold a "Multiple templates" finding exactly when n > 1, and it is a
\* hint, not an error; never both, and neither when n = 1.
C29_ParentLookupFindings ==
    [][(last'.op = "readDone" /\ last'.scan.scan.diagnostic /\ Has(files', last'.arg)
            /\ files'[last'.arg] # Null)
           => \A i \in DOMAIN files'[last'.arg].blocks :
                  \A j \in DOMAIN files'[last'.arg].blocks[i].params :
                      \A param \in {files'[last'.arg].blocks[i].params[j]} :
                          IsExtends(param)
                              => \A n \in {Cardinality(getTemplates(Cur', removeQuotes(param._value)))} :
                                 \A unknown \in {Findings(diagnostics'[last'.arg], "Unknown parent template",
                                                          removeQuotes(param._value), param.location)} :
                                 \A multiple \in {Findings(diagnostics'[last'.arg], "Multiple templates",
                                                           removeQuotes(param._value), param.location)} :
                                     /\ Len(unknown) > 0 <=> n = 0
                                     /\ Len(multiple) > 0 <=> n > 1
                                     /\ \A k \in DOMAIN unknown : unknown[k].severity = SeverityError
                                     /\ \A k \in DOMAIN multiple :
                                            /\ multiple[k].severity = SeverityHint
                                            /\ multiple[k].severity # SeverityError
                                     /\ ~(Len(unknown) > 0 /\ Len(multiple) > 0)
                                     /\ n = 1 => Len(unknown) = 0 /\ Len(multiple) = 0]_vars

\* a file was validated while the index holds A{_extends:t="B"} with B
\* declared twice (one hint), X{_extends:t="X"} with X declared once
\* (neither finding) and Z{_extends:t="Bar"} with no Bar (one error)
C29_Witness ==
    /\ last.op = "readDone" /\ last.scan.scan.diagnostic
    /\ Has(files, last.arg) /\ files[last.arg] # Null
    /\ \A n \in 0..2 :
           \E f \in DOMAIN files :
               /\ files[f] # Null /\ Has(diagnostics, f)
               /\ \E i \in DOMAIN files[f].blocks :
                      \E j \in DOMAIN files[f].blocks[i].params :
                          \E param \in {files[f].blocks[i].params[j]} :
                              /\ IsExtends(param)
                              /\ Cardinality(getTemplates(Cur, removeQuotes(param._value))) = n
                              /\ Len(Findings(diagnostics[f], "Unknown parent template",
                                              removeQuotes(param._value), param.location))
                                     = (IF n = 0 THEN 1 ELSE 0)
                              /\ Len(Findings(diagnostics[f], "Multiple templates",
                                              removeQuotes(param._value), param.location))
                                     = (IF n = 2 THEN 1 ELSE 0)

\* the number of segments of parts equal to name
Occurrences(parts, name) == Cardinality({i \in DOMAIN parts : parts[i] = name})

\* the findings of ds at location
FindingsAt(ds, location) == SelectSeq(ds, LAMBDA d : d.range = location)

\* C30: the segments of a _template param.  When a file is scanned and
\* validated, for every _template param of type t with a non-empty value on
\* a top-level entity block and every segment name of its value: the
\* diagnostics hold, at the param's location and with error severity, one
\* "Unknown template" finding per occurrence of the segment when
\* getTemplates returns nothing for it (none when it returns something), and
\* one "Template duplicate" finding per occurrence of the segment after its
\* first; when the segments are pairwise distinct and all resolve, no finding
\* is made at the param.
C30_TemplateSegmentFindings ==
    [][(last'.op = "readDone" /\ last'.scan.scan.diagnostic /\ Has(files', last'.arg)
            /\ files'[last'.arg] # Null)
           => \A i \in DOMAIN files'[last'.arg].blocks :
                  \A blk \in {files'[last'.arg].blocks[i]} :
                      \A j \in DOMAIN blk.params :
                          (blk.name = entityWithTemplateName /\ IsTemplate(blk.params[j]))
                              => \A parts \in {splitAndRemoveQuotes(blk.params[j]._value)} :
                                 \A ds \in {FindingsAt(diagnostics'[last'.arg], blk.params[j].location)} :
                                     /\ \A p \in DOMAIN parts :
                                            /\ Len(Findings(ds, "Unknown template", parts[p],
                                                            blk.params[j].location))
                                                   = (IF getTemplates(Cur', parts[p]) = {}
                                                      THEN Occurrences(parts, parts[p]) ELSE 0)
                                            /\ Len(Findings(ds, "Template duplicate", parts[p],
                                                            blk.params[j].location))
                                                   = Occurrences(parts, parts[p]) - 1
                                     /\ \A k \in DOMAIN ds :
                                            ds[k].message \in {"Unknown template", "Template duplicate"}
                                                => ds[k].severity = SeverityError
                                     /\ (/\ \A p \in DOMAIN parts : getTemplates(Cur', parts[p]) # {}
                                         /\ \A p, q \in DOMAIN parts : parts[p] = parts[q] => p = q)
                                            => ds = <<>>]_vars

\* a file was validated while the index holds entity{_template:t="D+D+U"}
\* with D declared and no U (one "Template duplicate" for D, one "Unknown
\* template" for U, both errors at the param) and entity{_template:t="A+B"}
\* with A and B declared (no finding at the param)
C30_Witness ==
    /\ last.op = "readDone" /\ last.scan.scan.diagnostic
    /\ Has(files, last.arg) /\ files[last.arg] # Null
    /\ \E f, g \in DOMAIN files :
           /\ files[f] # Null /\ Has(diagnostics, f)
           /\ files[g] # Null /\ Has(diagnostics, g)
           /\ \E i \in DOMAIN files[f].blocks :
                  \E j \in DOMAIN files[f].blocks[i].params :
                      \E param \in {files[f].blocks[i].params[j]} :
                          /\ files[f].blocks[i].name = entityWithTemplateName
                          /\ IsTemplate(param)
                          /\ splitAndRemoveQuotes(param._value) = << <<"D">>, <<"D">>, <<"U">> >>
                          /\ FindingsAt(diagnostics[f], param.location)
                                 = << Diag("Unknown template", <<"U">>, param.location, SeverityError),
                                      Diag("Template duplicate", <<"D">>, param.location, SeverityError) >>
           /\ \E i \in DOMAIN files[g].blocks :
                  \E j \in DOMAIN files[g].blocks[i].params :
                      \E param \in {files[g].blocks[i].params[j]} :
                          /\ files[g].blocks[i].name = entityWithTemplateName
                          /\ IsTemplate(param)
                          /\ splitAndRemoveQuotes(param._value) = << <<"A">>, <<"B">> >>
                          /\ FindingsAt(diagnostics[g], param.location) = <<>>

\* the paths with a non-null document
NonNull == {f \in DOMAIN files : files[f] # Null}

\* the names the index knows: of top-level blocks, of parents, of segments
KnownNames ==
    UNION {UNION {{files[f].blocks[i].name}
                  \cup UNION {IF files[f].blocks[i].params[j]._type = TypeT
                                 /\ files[f].blocks[i].params[j]._name \in {extendsField, templateField}
                              THEN Range(splitAndRemoveQuotes(files[f].blocks[i].params[j]._value))
                              ELSE {} : j \in DOMAIN files[f].blocks[i].params}
                  : i \in DOMAIN files[f].blocks} : f \in NonNull}

ParamPos(name, f, param) ==
    [name |-> name, filePath |-> f, location |-> param.location, indent |-> param.indent]

\* one record per _template param of type t of an entity block with a segment name
TemplateHits(name) ==
    UNION {UNION {{ParamPos(name, f, files[f].blocks[i].params[j]) :
                      j \in {k \in DOMAIN files[f].blocks[i].params :
                                /\ files[f].blocks[i].name = entityWithTemplateName
                                /\ files[f].blocks[i].params[k]._name = templateField
                                /\ files[f].blocks[i].params[k]._type = TypeT
                                /\ name \in Range(splitAndRemoveQuotes(
                                                      files[f].blocks[i].params[k]._value))}}
                  : i \in DOMAIN files[f].blocks} : f \in NonNull}

\* one record per _extends param of type t whose value is name, bare or quoted
ExtendsHits(name) ==
    UNION {UNION {{ParamPos(name, f, files[f].blocks[i].params[j]) :
                      j \in {k \in DOMAIN files[f].blocks[i].params :
                                /\ files[f].blocks[i].params[k]._name = extendsField
                                /\ files[f].blocks[i].params[k]._type = TypeT
                                /\ files[f].blocks[i].params[k]._value
                                       \in {name, <<Q>> \o name \o <<Q>>}}}
                  : i \in DOMAIN files[f].blocks} : f \in NonNull}

\* one record per top-level block named name (entity blocks among them or not)
BlockHits(name, withEntity) ==
    UNION {{[name |-> name, filePath |-> f, location |-> files[f].blocks[i].location] :
               i \in {k \in DOMAIN files[f].blocks :
                         /\ files[f].blocks[k].name = name
                         /\ withEntity \/ name # entityWithTemplateName}} : f \in NonNull}

\* res holds each record of hits once and nothing else
ExactlyOnce(res, hits) == Range(res) = hits /\ Len(res) = Cardinality(hits)

\* C31 as stated: for every name, findAllReferences returns one record per
\* _template:t param of an entity block with a segment equal to the name, one
\* per top-level block of that name, one per _extends:t param whose value is
\* the name or its quoted form, over the non-null documents, and nothing else.
\* (An entity block is never recorded as a block: for the name entity this
\* property is violated.)
C31_ReferencesOfEveryBlock ==
    \A name \in KnownNames :
        ExactlyOnce(findAllReferences(Cur, name),
                    TemplateHits(name) \cup BlockHits(name, TRUE) \cup ExtendsHits(name))

\* C31, amended: the same, with one record per top-level block of that name
\* other than an entity block.
C31_References ==
    \A name \in KnownNames :
        ExactlyOnce(findAllReferences(Cur, name),
                    TemplateHits(name) \cup BlockHits(name, FALSE) \cup ExtendsHits(name))

\* one file failed to parse and the other holds A{_extends:t="B";x:i=1} B{}
\* B{} entity{_template:t="A+B"}: four records for B, none for entity
C31_Witness ==
    /\ \E f \in DOMAIN files : files[f] = Null
    /\ Cardinality(TemplateHits(<<"B">>)) = 1
    /\ Cardinality(BlockHits(<<"B">>, FALSE)) = 2
    /\ Cardinality(ExtendsHits(<<"B">>)) = 1
    /\ Len(findAllReferences(Cur, <<"B">>)) = 4
    /\ entityWithTemplateName \in KnownNames
    /\ findAllReferences(Cur, entityWithTemplateName) = <<>>

\* the blocks below blk (blk itself when none of its children does) that hold
\* position and have no child that holds it, each with its nesting depth
RECURSIVE InnermostAt(_, _, _)
InnermostAt(blk, position, depth) ==
    IF \A i \in DOMAIN blk.blocks : ~isPosInLocation(blk.blocks[i].location, position)
    THEN {[blk |-> blk, depth |-> depth]}
    ELSE UNION {InnermostAt(blk.blocks[i], position, depth + 1) :
                   i \in {j \in DOMAIN blk.blocks :
                             isPosInLocation(blk.blocks[j].location, position)}}

Unresolved(call, cwd) ==
    /\ Len(call.path) > 0 /\ ~isAbsolute(call.path)
    /\ ~(StartsWith(call.path, <<".">>) /\ ~StartsWith(call.path, <<".", ".">>))
    /\ ~existsSync(pathResolve(cwd, call.path))
    /\ \A root \in workspaces : ~existsSync(pathResolve(root, call.path))
    /\ ~(~call.relativePath /\ IsBareName(call.path))

\* C33: the last resort of the include path resolution.  When the definition
\* of an import is asked for and its path does not resolve, the paths
\* returned are exactly the open files whose path contains the path asked
\* for; a file that is indexed but not open is not among them.  (findWSFile
\* hands files.keys() to findFile as the open files: every indexed file that
\* contains the path is returned, and this property is violated.)
C33_LastResortOpenFiles ==
    (last.op = "include" /\ "call" \in DOMAIN last.ret.result
         /\ Unresolved(last.ret.result.call, dirname(last.arg)))
        => Range(last.ret.result.call.res)
               = {f \in Range(openFiles) : Contains(f, last.ret.result.call.path)}

\* the walks a run starts: one per workspace folder
MaxWalks == 2

\* C34: the walk completes.  Every walk that was started eventually settles
\* and the rescan of the open files that follows it runs (the walk leaves
\* walks), also when readdir fails or an entry cannot be inspected.  (When
\* statSync throws, done is never called: this property is violated.)
C34_WalkCompletes ==
    \A w \in 1..MaxWalks : (w \in DOMAIN walks) ~> (w \notin DOMAIN walks)

\* the paths with an entry in one of the per-file maps or a completion list
DerivedPaths ==
    DOMAIN extendsInFiles \cup DOMAIN entitiesInScenes \cup DOMAIN templatesInFiles
        \cup {completion[i].key : i \in DOMAIN completion}

\* C35: nothing is derived from an absent document.  In every reachable
\* state, every path with an entry in extendsInFiles, entitiesInScenes,
\* templatesInFiles or the completion lists has a non-null document in
\* files.  (A scan whose text does not parse stores null and leaves the
\* entries of the last good scan; files.clear() and a scan for a removed
\* root leave them too: this property is violated.)
C35_DerivedOnlyFromDocuments ==
    \A f \in DerivedPaths : Has(files, f) /\ files[f] # Null

\* C36: a scan issued by the walk of a root that is removed before the
\* scan's read completes leaves files, the three per-file maps and the
\* per-file completion lists as they were.  (The code runs processFile
\* before it looks at workspaces: this property is violated.)
C36_RemovedRootScanDiscarded ==
    [][(/\ last'.op = "readDone"
        /\ last'.scan.scan \in DOMAIN pending
        /\ last'.scan.scan.workspaceFsPath # NoWorkspace
        /\ last'.scan.scan.workspaceFsPath \notin workspaces)
           => \E t \in {deliver([Cur EXCEPT !.pending = BagDel(@, last'.scan.scan)],
                                last'.scan.scan, last'.scan.data)} :
                  /\ t.files = files
                  /\ t.extendsInFiles = extendsInFiles
                  /\ t.entitiesInScenes = entitiesInScenes
                  /\ t.templatesInFiles = templatesInFiles
                  /\ t.completion = completion]_vars

\* the names of the top-level blocks of doc
BlockNames(doc) == {doc.blocks[i].name : i \in DOMAIN doc.blocks}

\* the names that the params of doc refer to: the value of an _extends
\* param, the segments of an entity's _template param
NamedBy(doc) ==
    UNION {UNION {IF IsExtends(doc.blocks[i].params[j])
                  THEN {removeQuotes(doc.blocks[i].params[j]._value)}
                  ELSE IF doc.blocks[i].name = entityWithTemplateName
                          /\ IsTemplate(doc.blocks[i].params[j])
                  THEN Range(splitAndRemoveQuotes(doc.blocks[i].params[j]._value))
                  ELSE {} : j \in DOMAIN doc.blocks[i].params} : i \in DOMAIN doc.blocks}

UnknownMessages == {"Unknown parent template", "Unknown template"}

\* C37: validation sees the document it validates.  When the read of a scan
\* with diagnostics delivers a text that parses, the document is in files
\* when the diagnostics are published, and no "Unknown parent template" or
\* "Unknown template" finding of the file names a top-level block of that
\* document.
C37_ValidationSeesOwnDocument ==
    [][(/\ last'.op = "readDone" /\ last'.scan.scan.diagnostic
        /\ ScanResult(last'.scan.data, Stripped(last'.scan.data)) # Null)
           => /\ last'.arg \in last'.sent
              /\ Lookup(files', last'.arg)
                     = {ScanResult(last'.scan.data, Stripped(last'.scan.data))}
              /\ \A k \in DOMAIN diagnostics'[last'.arg] :
                     diagnostics'[last'.arg][k].message \in UnknownMessages
                         => diagnostics'[last'.arg][k].name \notin BlockNames(files'[last'.arg])]_vars

\* a file that was purged and read again was validated; every name its
\* _extends param and its entity's _template segments refer to is declared
\* by a block of the file, one of them by this file alone, and the
\* diagnostics hold no unknown-template finding
C37_Witness ==
    /\ last.op = "readDone" /\ last.scan.scan.diagnostic
    /\ Has(files, last.arg) /\ files[last.arg] # Null
    /\ \E e \in last.prior : e.purged
    /\ \E i, k \in DOMAIN files[last.arg].blocks :
           \E j \in DOMAIN files[last.arg].blocks[i].params :
           \E l \in DOMAIN files[last.arg].blocks[k].params :
               /\ IsExtends(files[last.arg].blocks[i].params[j])
               /\ files[last.arg].blocks[k].name = entityWithTemplateName
               /\ IsTemplate(files[last.arg].blocks[k].params[l])
    /\ \E name \in NamedBy(files[last.arg]) \cap BlockNames(files[last.arg]) :
           /\ \A f \in DOMAIN files \ {last.arg} : files[f] # Null => name \notin BlockNames(files[f])
           /\ \A k \in DOMAIN diagnostics[last.arg] : diagnostics[last.arg][k].name # name
    /\ \A name \in NamedBy(files[last.arg]) : name \in BlockNames(files[last.arg])
    /\ \A k \in DOMAIN diagnostics[last.arg] :
           diagnostics[last.arg][k].message \notin UnknownMessages

\* the records of findAllReferences(name) that are params, not declarations
ReferenceSites(s, name) ==
    SelectSeq(findAllReferences(s, name), LAMBDA r : "indent" \in DOMAIN r)

\* C38: the code lens counts the reference sites.  When onCodeLens answers
\* with the lenses of a document, the lens of every top-level block whose
\* name is declared by exactly one top-level block of the index shows the
\* number of _extends params and entity _template params that
\* findAllReferences returns for the name.  (processFile counts every
\* segment of a _template value, findAllReferences one per param: this
\* property is violated.)
C38_LensCountsReferenceSites ==
    [][(\/ /\ last'.op = "codeLens"
           /\ Has(files, last'.arg) /\ files[last'.arg] # Null
        \/ /\ last'.op = "readDone" /\ last'.scan.scan.cont = "codeLens"
           /\ ScanResult(last'.scan.data, Stripped(last'.scan.data)) # Null)
           => \A l \in DOMAIN last'.ret :
                  \A i \in DOMAIN files'[last'.arg].blocks :
                      \A blk \in {files'[last'.arg].blocks[i]} :
                          (/\ blk.location = last'.ret[l].range
                           /\ Cardinality(getTemplates(Cur', removeQuotes(blk.name))) = 1)
                              => last'.ret[l].count
                                     = Len(ReferenceSites(Cur', removeQuotes(blk.name)))]_vars

\* the character (0-based) of the first character of the value of a param
\* that ends with its value
ValueStart(param) == param.location.end.column - 1 - Len(param._value)

\* the edit replaces, on the first line of location, the characters of name
\* that start at its first column
CoversName(edit, location, name) ==
    /\ edit.range.start = toPosition(location.start)
    /\ edit.range.end = Position(location.start.line - 1,
                                 location.start.column - 1 + Len(name))

\* the edit replaces characters of the value of param, and they spell name
CoversNameInValue(edit, param, name) ==
    /\ edit.range.start.line = param.location.end.line - 1
    /\ edit.range.end.line = param.location.end.line - 1
    /\ edit.range.start.character >= ValueStart(param)
    /\ edit.range.end.character <= param.location.end.column - 1
    /\ SubSeq(param._value, edit.range.start.character - ValueStart(param) + 1,
              edit.range.end.character - ValueStart(param)) = name

\* C39: a rename replaces the old name.  In the answer to a rename request
\* on the first line of a template declaration, the edit of the declaration
\* covers the block's name, and the edit of every _extends or _template
\* param lies inside the param's value and covers the characters of the
\* name there.  (The edit of a param starts where the param's name starts:
\* this property is violated.)
C39_RenameReplacesOldName ==
    [][last'.op = "rename"
           => \A res \in {findAllReferencesAt(Cur, last'.arg, files[last'.arg],
                                              last'.scan.position)} :
                  (Len(res) > 0 /\ "indent" \notin DOMAIN res[1])
                      => \A k \in DOMAIN res :
                             IF "indent" \notin DOMAIN res[k]
                             THEN CoversName(last'.ret[k], res[k].location, res[k].name)
                             ELSE \A i \in DOMAIN files[res[k].filePath].blocks :
                                  \A j \in DOMAIN files[res[k].filePath].blocks[i].params :
                                  \A param \in {files[res[k].filePath].blocks[i].params[j]} :
                                      (param.location = res[k].location
                                       /\ param._name \in {extendsField, templateField})
                                          => CoversNameInValue(last'.ret[k], param,
                                                               res[k].name)]_vars

=============================================================================
